---- MODULE Spec2Model ----
(***************************************************************************)
(* Model of the hardware-monitor telemetry core:                           *)
(*   general/shared_gpu_memory.py  CSharedGPUMemoryInfo  (component "sm")  *)
(*   general/transfer_speed.py     CTransferSpeedInfo    (component "ts")  *)
(*   general/gpu.py                CGPUInfo              (component "gpu") *)
(*   general/hardware.py           CHardwareInfo         (component "hw")  *)
(*                                                                         *)
(* The four objects share no state.  A behaviour exercises one of them,    *)
(* selected in Init by  component , so the reachable states are the        *)
(* disjoint union of the four objects' state spaces.                       *)
(*                                                                         *)
(* Time.  The code compares  time.time() - stamp  against a constant.      *)
(* Each time stamp is kept as its age  time.time() - stamp , a clock that  *)
(* Tick advances and that saturates at the constant it is compared         *)
(* against.  A stamp initialised to 0 has a saturated age.                 *)
(***************************************************************************)
EXTENDS Integers, Sequences, FiniteSets, TLC

VARIABLES
    component,   \* which object this behaviour exercises
    sm,          \* CSharedGPUMemoryInfo: the instance's fields, its executor's futures
    sm_ret,      \* what the last get_shared_gpu_memory_info() call returned
    sm_last,     \* what that call did (harvest / submit), and polls since the last submit
    ts,          \* CTransferSpeedInfo: the instance's fields
    ts_pc,       \* per calling thread: where it is inside get_speeds()
    ts_local,    \* per calling thread: the locals vram_speed, shared_speed of get_speeds()
    ts_ret,      \* what the last get_speeds() call that returned did return
    ts_last,     \* what that call did
    gpu,         \* CGPUInfo: the instance's fields
    gpu_status,  \* what the CGPUInfo.getStatus() call that just ended returned
    gpu_tripped, \* the metric kinds a read of which has raised in getStatus()
    gpu_patches, \* how many per-device PATCH requests have been made
    gpu_call,    \* what the constructor, reinitialize(), close() or PATCH that just ended did
    gpu_cleanups, \* backend cleanup calls (nvmlShutdown, jtop close) since the last initialization
    hw,          \* CHardwareInfo: switchCPU, switchRAM, switchHDD
    hw_status,   \* the cpu / ram / hdd fields of the last CHardwareInfo.getStatus()
    cm_rate,     \* cmonitor.rate, the sampling rate the settings route stores
    settings_call, \* what the PATCH /crystools/monitor request that just ended did
    settings_req, \* the PATCH /crystools/monitor request: its body, and whether it awaits its handler
    sm_pc,       \* per polling thread: where it is inside get_shared_gpu_memory_info()
    sm_lock,     \* CSharedGPUMemoryInfo._lock: the thread that holds it, 0 when free
    ts_lock,     \* CTransferSpeedInfo._lock: the thread that holds it, 0 when free
    gpu_cls,     \* the lists that are attributes of the class CGPUInfo
    gpu_inst,    \* several CGPUInfo instances: the list attributes each has of its own
    ts_retry     \* one call of measure_vram_speed() or measure_shared_gpu_memory_speed()

vars == <<component, sm, sm_ret, sm_last, ts, ts_pc, ts_local, ts_ret, ts_last,
          gpu, gpu_status, gpu_tripped, gpu_patches, gpu_call, gpu_cleanups,
          hw, hw_status, cm_rate, settings_call, settings_req, sm_pc, sm_lock, ts_lock,
          gpu_cls, gpu_inst, ts_retry>>
smvars == <<sm, sm_ret, sm_last>>
tsvars == <<ts, ts_pc, ts_local, ts_ret, ts_last>>
gpuvars == <<gpu, gpu_status, gpu_tripped, gpu_patches, gpu_call, gpu_cleanups>>
hwvars == <<hw, hw_status>>
setvars == <<cm_rate, settings_call, settings_req>>
lockvars == <<sm_pc, sm_lock, ts_lock>>
clsvars == <<gpu_cls, gpu_inst>>

\* ---------------------------------------------------------------- bounds
MaxPolls == 3          \* sm_last.polls saturates here
NumCallers == 2        \* threads that call get_speeds()
SMTickSeconds == 2     \* seconds that pass in one SMTick
TSTickSeconds == 5     \* seconds that pass in one TSTick
NumDevices == 2        \* the largest device count the backend reports
MaxPatches == 1        \* per-device PATCH requests in one behaviour
MaxFields == 2         \* fields that the body of one PATCH /crystools/monitor request names
NumInstances == 2      \* CGPUInfo instances in one process

\* ------------------------------------------------------------- constants
SM_MAX_CONSECUTIVE_FAILURES == 3
SM_FAILURE_COOLDOWN == 60
SM_update_interval == 2
TS_MAX_MEASUREMENT_RETRIES == 2
TS_FAILURE_COOLDOWN == 30
TS_measurement_interval == 5
MAX_INIT_RETRIES == 3
INITIAL_RETRY_DELAY == 1

Min(a, b) == IF a < b THEN a ELSE b

RemoveAt(s, i) == [k \in 1..(Len(s) - 1) |-> IF k < i THEN s[k] ELSE s[k + 1]]

\* =========================================================================
\*  CSharedGPUMemoryInfo
\* =========================================================================

\* Results a probe can produce.  used: -1 is the failure value of
\* _get_shared_memory_via_perfcounter; total: -1 is the failure value of
\* _get_total_shared_memory.  Percentages over these values are whole numbers.
SMUsedResults == {-1, 0, 100}
SMTotalResults == {-1, 400}

SMSentinel == [shared_gpu_memory_used |-> -1,
               shared_gpu_memory_total |-> -1,
               shared_gpu_memory_percent |-> -1]

SMRunning == [done |-> FALSE, exc |-> FALSE, used |-> -1, total |-> -1]

SMInit ==
    [switchSharedGPUMemory |-> FALSE,
     IS_WINDOWS |-> TRUE,
     shared_gpu_memory_used |-> -1,
     shared_gpu_memory_total |-> -1,
     shared_gpu_memory_percent |-> -1,
     update_age |-> SM_update_interval,
     query_in_progress |-> FALSE,
     pending_future |-> 0,
     consecutive_failures |-> 0,
     failure_age |-> SM_FAILURE_COOLDOWN,
     in_cooldown |-> FALSE,
     futures |-> <<>>,
     shutdown |-> FALSE]

SMCached(c) ==
    [shared_gpu_memory_used |-> c.shared_gpu_memory_used,
     shared_gpu_memory_total |-> c.shared_gpu_memory_total,
     shared_gpu_memory_percent |-> c.shared_gpu_memory_percent]

SMRecordFailure(c) ==
    LET n == c.consecutive_failures + 1
    IN  [c EXCEPT !.consecutive_failures = n,
                  !.failure_age = 0,
                  !.in_cooldown = IF n >= SM_MAX_CONSECUTIVE_FAILURES
                                  THEN TRUE ELSE c.in_cooldown]

\* Mutant: a success that clears the cooldown flag and keeps the counter.
SMRecordSuccessKeepsCount(c) ==
    [c EXCEPT !.in_cooldown = FALSE]

SMRecordSuccess(c) ==
    [c EXCEPT !.consecutive_failures = 0, !.in_cooldown = FALSE]

\* _should_query has a side effect: an elapsed cooldown is cleared.
SMCooldownElapsed(c) == c.failure_age >= SM_FAILURE_COOLDOWN

\* Mutant: the end of the cooldown clears the flag and keeps the counter.
SMShouldQueryStateKeepsCount(c) ==
    IF c.in_cooldown /\ SMCooldownElapsed(c)
    THEN [c EXCEPT !.in_cooldown = FALSE]
    ELSE c

SMShouldQueryState(c) ==
    IF c.in_cooldown /\ SMCooldownElapsed(c)
    THEN [c EXCEPT !.in_cooldown = FALSE, !.consecutive_failures = 0]
    ELSE c

SMShouldQuery(c) ==
    IF c.in_cooldown /\ ~SMCooldownElapsed(c)
    THEN FALSE
    ELSE c.update_age >= SM_update_interval

\* Mutant: the result is taken without the done() test.
SMFutureDoneNoTest(c) == c.pending_future # 0

\* Line 174.
SMFutureDone(c) == c.pending_future # 0 /\ c.futures[c.pending_future].done

SMPercent(used, total) ==
    IF total > 0 /\ used >= 0 THEN (used * 100) \div total ELSE 0

\* Mutant: the failure value is stored like a usage.
SMApplyUsedAlways(c, f) ==
    IF f.used >= 0
    THEN SMRecordSuccess([c EXCEPT !.shared_gpu_memory_used = f.used])
    ELSE SMRecordFailure([c EXCEPT !.shared_gpu_memory_used = f.used])

\* Lines 178-182: the usage of a retrieved result; -1 is the probe's failure value.
SMApplyUsed(c, f) ==
    IF f.used >= 0
    THEN SMRecordSuccess([c EXCEPT !.shared_gpu_memory_used = f.used])
    ELSE SMRecordFailure(c)

\* Lines 184-185.
SMApplyTotal(c, f) ==
    IF f.total > 0 THEN [c EXCEPT !.shared_gpu_memory_total = f.total] ELSE c

\* A harvest without the finally clause of lines 200-202: the result is applied
\* and the probe stays pending.
SMHarvestKeepsPending(c) ==
    IF ~SMFutureDone(c) THEN c
    ELSE
      LET f == c.futures[c.pending_future]
      IN  IF f.exc THEN SMRecordFailure(c)
          ELSE LET b == SMApplyTotal(SMApplyUsed(c, f), f)
               IN  [b EXCEPT !.shared_gpu_memory_percent =
                                 SMPercent(b.shared_gpu_memory_used,
                                           b.shared_gpu_memory_total),
                             !.update_age = 0]

\* Lines 174-202: retrieve the result of a completed probe.
SMHarvest(c) ==
    IF ~SMFutureDone(c) THEN c
    ELSE
      LET f == c.futures[c.pending_future]
          c1 == IF f.exc THEN SMRecordFailure(c)
                ELSE LET b == SMApplyTotal(SMApplyUsed(c, f), f)
                     IN  [b EXCEPT !.shared_gpu_memory_percent =
                                       SMPercent(b.shared_gpu_memory_used,
                                                 b.shared_gpu_memory_total),
                                   !.update_age = 0]
      IN  [c1 EXCEPT !.pending_future = 0,
                     !.query_in_progress = FALSE,
                     !.futures = RemoveAt(c.futures, c.pending_future)]

\* What the harvest of lines 174-202 finds: no completed probe, a usage ("ok"),
\* the failure value ("fail"), or a probe that raised ("exc").
SMHarvestKind(c) ==
    IF ~SMFutureDone(c) THEN "none"
    ELSE LET f == c.futures[c.pending_future]
         IN  IF f.exc THEN "exc" ELSE IF f.used >= 0 THEN "ok" ELSE "fail"

\* Mutant: the dispatch ignores _query_in_progress.
SMSubmitKindNoFlag(c) ==
    IF c.in_cooldown /\ ~SMCooldownElapsed(c) THEN "cooldown"
    ELSE IF ~SMShouldQuery(c) THEN "interval"
    ELSE IF c.shutdown THEN "rejected"
    ELSE "ok"

\* Mutant: submit is called outside a try block.
SMSubmitKindUnhandled(c) ==
    IF c.query_in_progress THEN "busy"
    ELSE IF c.in_cooldown /\ ~SMCooldownElapsed(c) THEN "cooldown"
    ELSE IF ~SMShouldQuery(c) THEN "interval"
    ELSE IF c.shutdown THEN "raised"
    ELSE "ok"

\* Lines 205-212: what becomes of the dispatch.  "busy": a probe is in progress;
\* "cooldown", "interval": _should_query() is false; "rejected": submit raised and
\* the handler of line 209 took it; "ok": a probe was submitted.  "raised" would be
\* an exception leaving the call, which no path of the code produces.
SMSubmitKind(c) ==
    IF c.query_in_progress THEN "busy"
    ELSE IF c.in_cooldown /\ ~SMCooldownElapsed(c) THEN "cooldown"
    ELSE IF ~SMShouldQuery(c) THEN "interval"
    ELSE IF c.shutdown THEN "rejected"
    ELSE "ok"

\* Lines 205-212: start a new probe; submit raises once the executor is shut down.
SMDispatch(c) ==
    LET k == SMSubmitKind(c)
        c1 == IF k = "busy" THEN c ELSE SMShouldQueryState(c)
    IN  CASE k = "ok" -> [c1 EXCEPT !.query_in_progress = TRUE,
                                    !.futures = Append(c1.futures, SMRunning),
                                    !.pending_future = Len(c1.futures) + 1]
          [] k = "rejected" -> SMRecordFailure([c1 EXCEPT !.query_in_progress = FALSE])
          [] k = "raised" -> [c1 EXCEPT !.query_in_progress = TRUE]
          [] OTHER -> c1

\* A test of the switch alone, whatever the platform.
SMEnabledOnAnyPlatform(c) == c.switchSharedGPUMemory

\* Lines 158-170: the switch and the platform tests that precede the lock.
SMEnabled(c) == c.switchSharedGPUMemory /\ c.IS_WINDOWS

\* get_shared_gpu_memory_info(), lines 145-219.  The body runs under self._lock.
\* h is the instance after the harvest, d after the dispatch, k what became of the
\* dispatch.
GetSharedGPUMemoryInfo ==
    /\ component = "sm"
    /\ UNCHANGED <<component, clsvars, ts_retry, lockvars, setvars, tsvars, gpuvars, hwvars>>
    /\ IF ~SMEnabled(sm)
       THEN /\ sm_ret' = SMSentinel
            /\ sm_last' = [sm_last EXCEPT !.kind = "off", !.harvest = "none",
                                          !.submit = "none"]
            /\ sm' = sm
       ELSE \E h \in {SMHarvest(sm)} :
            \E d \in {SMDispatch(h)}, k \in {SMSubmitKind(h)} :
                /\ sm' = d
                /\ sm_ret' = IF k = "raised" THEN sm_ret ELSE SMCached(d)
                /\ sm_last' = [kind |-> IF k = "raised" THEN "raised" ELSE "poll",
                               harvest |-> SMHarvestKind(sm),
                               submit |-> k,
                               polls |-> IF k = "ok" THEN 1
                                         ELSE IF Len(d.futures) = 0 THEN 0
                                         ELSE Min(sm_last.polls + 1, MaxPolls)]

\* The executor's single worker finishes _perform_query (lines 139-143).
SMProbeCompletes ==
    /\ component = "sm"
    /\ \E i \in 1..Len(sm.futures) :
         /\ ~sm.futures[i].done
         /\ \A j \in 1..(i - 1) : sm.futures[j].done
         /\ \E u \in SMUsedResults, t \in SMTotalResults, x \in BOOLEAN :
              sm' = [sm EXCEPT !.futures[i] =
                        IF x THEN [done |-> TRUE, exc |-> TRUE, used |-> -1, total |-> -1]
                        ELSE [done |-> TRUE, exc |-> FALSE, used |-> u, total |-> t]]
    /\ UNCHANGED <<component, clsvars, ts_retry, lockvars, setvars, sm_ret, sm_last, tsvars, gpuvars, hwvars>>

\* CHardwareInfo.switchSharedGPUMemory setter (hardware.py 48-50).
SetSwitchSharedGPUMemory ==
    /\ component = "sm"
    /\ \E v \in BOOLEAN :
         /\ v # sm.switchSharedGPUMemory
         /\ sm' = [sm EXCEPT !.switchSharedGPUMemory = v]
    /\ UNCHANGED <<component, clsvars, ts_retry, lockvars, setvars, sm_ret, sm_last, tsvars, gpuvars, hwvars>>

\* close(), lines 221-227.
SMClose ==
    /\ component = "sm"
    /\ ~sm.shutdown
    /\ sm' = [sm EXCEPT !.shutdown = TRUE]
    /\ UNCHANGED <<component, clsvars, ts_retry, lockvars, setvars, sm_ret, sm_last, tsvars, gpuvars, hwvars>>

\* Time passes.
SMTick ==
    /\ component = "sm"
    /\ \/ sm.update_age < SM_update_interval
       \/ sm.failure_age < SM_FAILURE_COOLDOWN
    /\ sm' = [sm EXCEPT !.update_age = Min(@ + SMTickSeconds, SM_update_interval),
                        !.failure_age = Min(@ + SMTickSeconds, SM_FAILURE_COOLDOWN)]
    /\ UNCHANGED <<component, clsvars, ts_retry, lockvars, setvars, sm_ret, sm_last, tsvars, gpuvars, hwvars>>

\* =========================================================================
\*  CTransferSpeedInfo
\* =========================================================================

Callers == 1..NumCallers

\* What one attempt of _measure_*_speed_internal can give: a speed (0 when the
\* elapsed time is not positive) or an exception.
TSAttemptOutcomes ==
    {[exc |-> TRUE, speed |-> 0]} \cup {[exc |-> FALSE, speed |-> v] : v \in {0, 100, 200}}

TSInit ==
    [switchTransferSpeed |-> FALSE,
     cuda_available |-> TRUE,
     last_vram_speed |-> -1,
     last_shared_speed |-> -1,
     measurement_age |-> TS_measurement_interval,
     consecutive_failures |-> 0,
     failure_age |-> TS_FAILURE_COOLDOWN,
     in_cooldown |-> FALSE,
     measuring |-> FALSE]

TSSentinel == [vram_speed |-> -1, shared_gpu_speed |-> -1]

TSCached(c) == [vram_speed |-> c.last_vram_speed,
                shared_gpu_speed |-> c.last_shared_speed]

\* Mutant: the cooldown starts one failure late.
TSRecordFailureLate(c) ==
    LET n == c.consecutive_failures + 1
    IN  [c EXCEPT !.consecutive_failures = n,
                  !.failure_age = 0,
                  !.in_cooldown = IF n > TS_MAX_MEASUREMENT_RETRIES
                                  THEN TRUE ELSE c.in_cooldown]

TSRecordFailure(c) ==
    LET n == c.consecutive_failures + 1
    IN  [c EXCEPT !.consecutive_failures = n,
                  !.failure_age = 0,
                  !.in_cooldown = IF n >= TS_MAX_MEASUREMENT_RETRIES
                                  THEN TRUE ELSE c.in_cooldown]

TSRecordSuccess(c) ==
    [c EXCEPT !.consecutive_failures = 0, !.in_cooldown = FALSE]

\* A cooldown window that never ends.
TSCooldownNeverElapsed(c) == FALSE

\* Line 70: the test of the cooldown window.
TSCooldownElapsed(c) == c.failure_age >= TS_FAILURE_COOLDOWN

\* _should_measure has a side effect: an elapsed cooldown is cleared.
TSShouldMeasureState(c) ==
    IF c.in_cooldown /\ TSCooldownElapsed(c)
    THEN [c EXCEPT !.in_cooldown = FALSE, !.consecutive_failures = 0]
    ELSE c

TSShouldMeasure(c) ==
    IF c.in_cooldown /\ ~TSCooldownElapsed(c)
    THEN FALSE
    ELSE c.measurement_age >= TS_measurement_interval

\* The retry loop of measure_vram_speed / measure_shared_gpu_memory_speed:
\* outs[k] is what attempt k gives; the first positive speed is returned.
RECURSIVE TSRetry(_, _)
TSRetry(outs, k) ==
    IF k > TS_MAX_MEASUREMENT_RETRIES THEN -1
    ELSE IF ~outs[k].exc /\ outs[k].speed > 0 THEN outs[k].speed
    ELSE TSRetry(outs, k + 1)

\* Mutant: a sub-measurement that tests CUDA alone.
TSMeasureIgnoresSwitch(c, outs) ==
    IF ~c.cuda_available THEN -1
    ELSE TSRetry(outs, 1)

TSMeasure(c, outs) ==
    IF ~c.cuda_available \/ ~c.switchTransferSpeed THEN -1
    ELSE TSRetry(outs, 1)

\* -------------------------------------------------------------------------
\* One call of measure_vram_speed() (lines 93-115) or of
\* measure_shared_gpu_memory_speed() (lines 142-167), statement by statement.
\* outs[k] is what the k-th call of the internal measurement gives; tries counts
\* the calls made.

\* No call is being followed.
TSNoRetry ==
    [pc |-> "none", which |-> "vram", cuda_available |-> FALSE,
     switchTransferSpeed |-> FALSE,
     outs |-> [k \in 1..TS_MAX_MEASUREMENT_RETRIES |-> [exc |-> TRUE, speed |-> 0]],
     attempt |-> 0, tries |-> 0, sleeps |-> 0, result |-> 0]

\* Lines 100-101 (152-153): the guard.
TSRetryGuard ==
    /\ ts_retry.pc = "guard"
    /\ ts_retry' = IF ~ts_retry.cuda_available \/ ~ts_retry.switchTransferSpeed
                   THEN [ts_retry EXCEPT !.pc = "done", !.result = -1]
                   ELSE [ts_retry EXCEPT !.pc = "loop", !.attempt = 0]
    /\ UNCHANGED <<component, clsvars, lockvars, setvars, smvars, tsvars, gpuvars, hwvars>>

\* An iteration that returns a speed of 0 as well.
TSRetryAttemptAcceptsZero ==
    /\ ts_retry.pc = "loop"
    /\ ts_retry.attempt < TS_MAX_MEASUREMENT_RETRIES
    /\ LET o == ts_retry.outs[ts_retry.attempt + 1]
           r == [ts_retry EXCEPT !.tries = @ + 1]
       IN  ts_retry' =
             IF o.exc
             THEN [r EXCEPT !.attempt = @ + 1,
                            !.sleeps = IF ts_retry.attempt < TS_MAX_MEASUREMENT_RETRIES - 1
                                       THEN @ + 1 ELSE @]
             ELSE IF o.speed >= 0
             THEN [r EXCEPT !.pc = "done", !.result = o.speed]
             ELSE [r EXCEPT !.attempt = @ + 1]
    /\ UNCHANGED <<component, clsvars, lockvars, setvars, smvars, tsvars, gpuvars, hwvars>>

\* Lines 103-113 (155-165): one iteration of `for attempt in range(...)`.  A
\* positive speed is returned; any other speed goes on to the next iteration; an
\* exception is taken by the handler, which sleeps unless the attempt was the last.
TSRetryAttempt ==
    /\ ts_retry.pc = "loop"
    /\ ts_retry.attempt < TS_MAX_MEASUREMENT_RETRIES
    /\ LET o == ts_retry.outs[ts_retry.attempt + 1]
           r == [ts_retry EXCEPT !.tries = @ + 1]
       IN  ts_retry' =
             IF o.exc
             THEN [r EXCEPT !.attempt = @ + 1,
                            !.sleeps = IF ts_retry.attempt < TS_MAX_MEASUREMENT_RETRIES - 1
                                       THEN @ + 1 ELSE @]
             ELSE IF o.speed > 0
             THEN [r EXCEPT !.pc = "done", !.result = o.speed]
             ELSE [r EXCEPT !.attempt = @ + 1]
    /\ UNCHANGED <<component, clsvars, lockvars, setvars, smvars, tsvars, gpuvars, hwvars>>

\* Line 115 (167): the range is used up.
TSRetryExhausted ==
    /\ ts_retry.pc = "loop"
    /\ ts_retry.attempt >= TS_MAX_MEASUREMENT_RETRIES
    /\ ts_retry' = [ts_retry EXCEPT !.pc = "done", !.result = -1]
    /\ UNCHANGED <<component, clsvars, lockvars, setvars, smvars, tsvars, gpuvars, hwvars>>

TSNoLocal == [vram_speed |-> -1, shared_speed |-> -1, raised |-> FALSE, skipped |-> {}]

\* A test of _measuring that always finds it clear.
TSMeasuringNeverSeen(c) == FALSE

\* Line 211: the test of _measuring, made under the lock.
TSMeasuring(c) == c.measuring

\* get_speeds(), lines 204-225: the switch test and the first locked section.
GetSpeedsEnter(t) ==
    /\ component = "ts"
    /\ ts_pc[t] = "idle"
    /\ IF ~ts.switchTransferSpeed
       THEN /\ ts_ret' = TSSentinel
            /\ ts_last' = [kind |-> "off"]
            /\ UNCHANGED <<ts, ts_pc, ts_local>>
       ELSE IF TSMeasuring(ts)
       THEN /\ ts_ret' = TSCached(ts)
            /\ ts_last' = [kind |-> "busy"]
            /\ UNCHANGED <<ts, ts_pc, ts_local>>
       ELSE IF ~TSShouldMeasure(ts)
       THEN /\ ts' = TSShouldMeasureState(ts)
            /\ ts_ret' = TSCached(ts)
            /\ ts_last' = [kind |-> IF ts.in_cooldown /\ ~TSCooldownElapsed(ts)
                                    THEN "cooldown" ELSE "interval"]
            /\ UNCHANGED <<ts_pc, ts_local>>
       ELSE /\ ts' = [TSShouldMeasureState(ts) EXCEPT !.measuring = TRUE]
            /\ ts_pc' = [ts_pc EXCEPT ![t] = "vram"]
            /\ ts_local' = [ts_local EXCEPT ![t] = TSNoLocal]
            /\ UNCHANGED <<ts_ret, ts_last>>
    /\ UNCHANGED <<component, clsvars, ts_retry, lockvars, setvars, smvars, gpuvars, hwvars>>

\* Lines 100-101, 152-153: the guard that precedes the retry loop.  A call that
\* returns there ran no benchmark; an exception can leave the call only from
\* inside the loop.
TSRunsBenchmark(c) == c.cuda_available /\ c.switchTransferSpeed
TSMayRaise(c) == IF TSRunsBenchmark(c) THEN BOOLEAN ELSE {FALSE}

\* The sub-measurements of this call that found the switch off, with  which  added
\* when the call that starts now finds it off.
TSSkipped(c, local, which) ==
    IF c.switchTransferSpeed THEN local.skipped ELSE local.skipped \cup {which}

\* Line 229: vram_speed = self.measure_vram_speed(), on the calling thread.
GetSpeedsMeasureVram(t) ==
    /\ component = "ts"
    /\ ts_pc[t] = "vram"
    /\ \E outs \in [1..TS_MAX_MEASUREMENT_RETRIES -> TSAttemptOutcomes],
          x \in TSMayRaise(ts) :
         IF x
         THEN /\ ts_local' = [ts_local EXCEPT ![t].raised = TRUE]
              /\ ts_pc' = [ts_pc EXCEPT ![t] = "finish"]
         ELSE /\ ts_local' = [ts_local EXCEPT
                                ![t].vram_speed = TSMeasure(ts, outs),
                                ![t].skipped = TSSkipped(ts, ts_local[t], "vram")]
              /\ ts_pc' = [ts_pc EXCEPT ![t] = "shared"]
    /\ UNCHANGED <<component, clsvars, ts_retry, lockvars, setvars, smvars, gpuvars, hwvars, ts, ts_ret, ts_last>>

\* Line 230: shared_speed = self.measure_shared_gpu_memory_speed().
GetSpeedsMeasureShared(t) ==
    /\ component = "ts"
    /\ ts_pc[t] = "shared"
    /\ \E outs \in [1..TS_MAX_MEASUREMENT_RETRIES -> TSAttemptOutcomes],
          x \in TSMayRaise(ts) :
         IF x
         THEN ts_local' = [ts_local EXCEPT ![t].raised = TRUE]
         ELSE ts_local' = [ts_local EXCEPT
                             ![t].shared_speed = TSMeasure(ts, outs),
                             ![t].skipped = TSSkipped(ts, ts_local[t], "shared")]
    /\ ts_pc' = [ts_pc EXCEPT ![t] = "finish"]
    /\ UNCHANGED <<component, clsvars, ts_retry, lockvars, setvars, smvars, gpuvars, hwvars, ts, ts_ret, ts_last>>

\* Lines 233-248: the cache update of the second locked section.
TSUpdate(c, vram_speed, shared_speed) ==
    LET any_failed == vram_speed < 0 \/ shared_speed < 0
        a == IF vram_speed > 0 THEN [c EXCEPT !.last_vram_speed = vram_speed] ELSE c
        b == IF shared_speed > 0 THEN [a EXCEPT !.last_shared_speed = shared_speed] ELSE a
        d == [b EXCEPT !.measurement_age = 0, !.measuring = FALSE]
    IN  IF any_failed THEN TSRecordFailure(d) ELSE TSRecordSuccess(d)

\* A handler that records the failure and leaves _measuring set.
TSExceptKeepsMeasuring(c) == TSRecordFailure(c)

\* Lines 256-260: the handler of an exception that escaped the measurement.
TSExcept(c) == TSRecordFailure([c EXCEPT !.measuring = FALSE])

\* Lines 233-265: the second locked section, or the except handler, and the return.
GetSpeedsFinish(t) ==
    /\ component = "ts"
    /\ ts_pc[t] = "finish"
    /\ ts' = IF ts_local[t].raised THEN TSExcept(ts)
             ELSE TSUpdate(ts, ts_local[t].vram_speed, ts_local[t].shared_speed)
    /\ ts_ret' = TSCached(ts')
    /\ ts_last' = [kind |-> IF ts_local[t].raised THEN "raised" ELSE "measured",
                    skipped |-> ts_local[t].skipped]
    /\ ts_pc' = [ts_pc EXCEPT ![t] = "idle"]
    /\ ts_local' = [ts_local EXCEPT ![t] = TSNoLocal]
    /\ UNCHANGED <<component, clsvars, ts_retry, lockvars, setvars, smvars, gpuvars, hwvars>>

\* CHardwareInfo.switchTransferSpeed setter (hardware.py 41-43).
SetSwitchTransferSpeed ==
    /\ component = "ts"
    /\ \E v \in BOOLEAN :
         /\ v # ts.switchTransferSpeed
         /\ ts' = [ts EXCEPT !.switchTransferSpeed = v]
    /\ UNCHANGED <<component, clsvars, ts_retry, lockvars, setvars, smvars, gpuvars, hwvars, ts_pc, ts_local, ts_ret, ts_last>>

\* Time passes.
TSTick ==
    /\ component = "ts"
    /\ \/ ts.measurement_age < TS_measurement_interval
       \/ ts.failure_age < TS_FAILURE_COOLDOWN
    /\ ts' = [ts EXCEPT !.measurement_age = Min(@ + TSTickSeconds, TS_measurement_interval),
                        !.failure_age = Min(@ + TSTickSeconds, TS_FAILURE_COOLDOWN)]
    /\ UNCHANGED <<component, clsvars, ts_retry, lockvars, setvars, smvars, gpuvars, hwvars, ts_pc, ts_local, ts_ret, ts_last>>

\* =========================================================================
\*  CGPUInfo
\* =========================================================================

Kinds == {"utilization", "vram", "temperature"}

\* What the backend calls of one getStatus() call give.  Every read returns its
\* value (utilization 50, temperature 60, memory 4 GiB of 10) except at most one, the
\* fault: the call  call  for device  dev  raises, or ("total0") the memory read of
\* that device reports a total of 0.
GPUFaults(n) ==
    {[dev |-> 0, call |-> "none"]}
    \cup [dev : 1..n, call : {"handle", "utilization", "vram", "temperature", "total0"}]

GPUOutcome(fault, i) ==
    LET here == fault.dev = i
    IN  [handle |-> [exc |-> here /\ fault.call = "handle"],
         util |-> IF here /\ fault.call = "utilization"
                  THEN [exc |-> TRUE, val |-> -1] ELSE [exc |-> FALSE, val |-> 50],
         mem |-> IF here /\ fault.call = "vram"
                 THEN [exc |-> TRUE, used |-> 0, total |-> 0]
                 ELSE IF here /\ fault.call = "total0"
                 THEN [exc |-> FALSE, used |-> 4, total |-> 0]
                 ELSE [exc |-> FALSE, used |-> 4, total |-> 10],
         temp |-> IF here /\ fault.call = "temperature"
                  THEN [exc |-> TRUE, val |-> -1] ELSE [exc |-> FALSE, val |-> 60]]

\* No constructor, reinitialize(), close() or PATCH call has just ended.  met: the
\* outcomes the initialization attempts met; slept: its time.sleep() delays; ret:
\* the value of reinitialize(); stale: a per-device switch was off when
\* reinitialize() was called; latched: close() found _closed set; raised: close()
\* ended by raising; index, code: the PATCH request's index and response.
GPUNoCall ==
    [op |-> "none", met |-> <<>>, slept |-> <<>>, ret |-> FALSE, stale |-> FALSE,
     latched |-> FALSE, raised |-> FALSE,
     index |-> [numeric |-> TRUE, val |-> 0], code |-> 0]

\* No getStatus() call has just returned.
GPUNoStatus == [raised |-> FALSE, device_type |-> "none", gpus |-> <<>>]

GPUSentinelRecord ==
    [gpu_utilization |-> -1, gpu_temperature |-> -1,
     vram_total |-> -1, vram_used |-> -1, vram_used_percent |-> -1]

\* The class attributes of lines 42-60, with the module's IS_JETSON (line 36).
GPUDefaults ==
    [IS_JETSON |-> FALSE,
     cuda |-> FALSE, pynvmlLoaded |-> FALSE, jtopLoaded |-> FALSE,
     anygpuLoaded |-> FALSE, cudaAvailable |-> FALSE,
     torchDevice |-> "cpu", cudaDevice |-> "cpu", cudaDevicesFound |-> 0,
     switchGPU |-> TRUE, switchVRAM |-> TRUE, switchTemperature |-> TRUE,
     gpus |-> <<>>, gpusUtilization |-> <<>>, gpusVRAM |-> <<>>,
     gpusTemperature |-> <<>>, closed |-> FALSE]

\* What one attempt of the initialization loop can meet: the backend starts, the
\* module is not installed (ImportError), or the start raises another error.
GPUInitOutcomes == {"ok", "import", "error"}

\* The loops of _init_jtop_with_retry() / _init_pynvml_with_retry(), lines 81-100
\* and 107-126, from attempt number  attempt  (counted from 0) on.  outs[k] is what
\* the k-th attempt meets;  slept  are the time.sleep() delays so far.
RECURSIVE GPUInitRetryFixedDelay(_, _, _, _)
RECURSIVE GPUInitRetryAfterImportError(_, _, _, _)
RECURSIVE GPUInitRetry(_, _, _, _)

\* A loop that sleeps the same delay before every retry.
GPUInitRetryFixedDelay(outs, attempt, delay, slept) ==
    IF attempt >= MAX_INIT_RETRIES
    THEN [loaded |-> FALSE, attempts |-> attempt, slept |-> slept]
    ELSE IF outs[attempt + 1] = "ok"
    THEN [loaded |-> TRUE, attempts |-> attempt + 1, slept |-> slept]
    ELSE IF outs[attempt + 1] = "import"
    THEN [loaded |-> FALSE, attempts |-> attempt + 1, slept |-> slept]
    ELSE IF attempt < MAX_INIT_RETRIES - 1
    THEN GPUInitRetryFixedDelay(outs, attempt + 1, delay, Append(slept, delay))
    ELSE GPUInitRetryFixedDelay(outs, attempt + 1, delay, slept)

\* A loop that retries after an ImportError as after any other error.
GPUInitRetryAfterImportError(outs, attempt, delay, slept) ==
    IF attempt >= MAX_INIT_RETRIES
    THEN [loaded |-> FALSE, attempts |-> attempt, slept |-> slept]
    ELSE IF outs[attempt + 1] = "ok"
    THEN [loaded |-> TRUE, attempts |-> attempt + 1, slept |-> slept]
    ELSE IF attempt < MAX_INIT_RETRIES - 1
    THEN GPUInitRetryAfterImportError(outs, attempt + 1, delay * 2,
                                      Append(slept, delay))
    ELSE GPUInitRetryAfterImportError(outs, attempt + 1, delay, slept)

GPUInitRetry(outs, attempt, delay, slept) ==
    IF attempt >= MAX_INIT_RETRIES
    THEN [loaded |-> FALSE, attempts |-> attempt, slept |-> slept]
    ELSE IF outs[attempt + 1] = "ok"
    THEN [loaded |-> TRUE, attempts |-> attempt + 1, slept |-> slept]
    ELSE IF outs[attempt + 1] = "import"
    THEN [loaded |-> FALSE, attempts |-> attempt + 1, slept |-> slept]
    ELSE IF attempt < MAX_INIT_RETRIES - 1
    THEN GPUInitRetry(outs, attempt + 1, delay * 2, Append(slept, delay))
    ELSE GPUInitRetry(outs, attempt + 1, delay, slept)

\* An initialization that marks the backend loaded whatever the attempts met.
GPUInitLibraryAlwaysLoads(g, outs) ==
    IF g.IS_JETSON THEN [g EXCEPT !.jtopLoaded = TRUE]
    ELSE [g EXCEPT !.pynvmlLoaded = TRUE]

\* _init_gpu_library(), lines 69-74: jtop on a Jetson, pynvml elsewhere.
GPUInitLibrary(g, outs) ==
    LET r == GPUInitRetry(outs, 0, INITIAL_RETRY_DELAY, <<>>)
    IN  IF ~r.loaded THEN g
        ELSE IF g.IS_JETSON THEN [g EXCEPT !.jtopLoaded = TRUE]
        ELSE [g EXCEPT !.pynvmlLoaded = TRUE]

\* deviceGetCount(), lines 258-265; count is what nvmlDeviceGetCount() reports.
GPUDeviceGetCount(g, count) ==
    IF g.pynvmlLoaded THEN count ELSE IF g.jtopLoaded THEN 1 ELSE 0

\* _setup_gpu_devices(), lines 128-177.
GPUSetupDevices(g, count, torchDevice, cudaAvailable) ==
    LET nogpu == g.pynvmlLoaded /\ ~g.jtopLoaded /\ GPUDeviceGetCount(g, count) = 0
        a == IF nogpu
             THEN [g EXCEPT !.anygpuLoaded = FALSE, !.pynvmlLoaded = FALSE,
                            !.jtopLoaded = FALSE]
             ELSE [g EXCEPT !.anygpuLoaded = g.pynvmlLoaded \/ g.jtopLoaded]
        n == GPUDeviceGetCount(a, count)
        b == IF a.anygpuLoaded /\ n > 0
             THEN [a EXCEPT
                     !.cudaDevicesFound = n,
                     !.gpus = a.gpus \o [i \in 1..n |-> [index |-> i - 1]],
                     !.gpusUtilization = a.gpusUtilization \o [i \in 1..n |-> TRUE],
                     !.gpusVRAM = a.gpusVRAM \o [i \in 1..n |-> TRUE],
                     !.gpusTemperature = a.gpusTemperature \o [i \in 1..n |-> TRUE],
                     !.cuda = TRUE]
             ELSE a
    IN  [b EXCEPT !.torchDevice = torchDevice,
                  !.cudaDevice = IF torchDevice = "cpu" THEN "cpu" ELSE "cuda",
                  !.cudaAvailable = cudaAvailable]

\* deviceGetHandleByIndex(), lines 267-273: only the pynvml call can raise.
GPUHandleRaises(g, o) == g.pynvmlLoaded /\ o.handle.exc

\* deviceGetUtilizationRates(), lines 312-324: jtop's error is caught inside.
GPUUtilization(g, o) ==
    IF g.pynvmlLoaded THEN o.util
    ELSE IF g.jtopLoaded THEN [exc |-> FALSE, val |-> o.util.val]
    ELSE [exc |-> FALSE, val |-> 0]

\* deviceGetMemoryInfo(), lines 326-336: both backends' reads can raise.
GPUMemoryInfo(g, o) ==
    IF g.pynvmlLoaded \/ g.jtopLoaded THEN o.mem
    ELSE [exc |-> FALSE, used |-> 1, total |-> 1]

\* deviceGetTemperature(), lines 338-349: jtop's error is caught inside.
GPUTemperature(g, o) ==
    IF g.pynvmlLoaded THEN o.temp
    ELSE IF g.jtopLoaded THEN [exc |-> FALSE, val |-> o.temp.val]
    ELSE [exc |-> FALSE, val |-> 0]

\* Mutant: the utilization read ignores switchGPU.
GPUReadsUtilizationNoSwitch(g, i) == g.gpusUtilization[i]

\* The guards of lines 216, 224, 238.
GPUReadsUtilization(g, i) == g.switchGPU /\ g.gpusUtilization[i]
GPUReadsVRAM(g, i) == g.switchVRAM /\ g.gpusVRAM[i]
GPUReadsTemperature(g, i) == g.switchTemperature /\ g.gpusTemperature[i]

\* A percentage that is 0, not the sentinel, when the total is 0.
GPUVramPercentZeroForNoTotal(used, total) ==
    IF total # 0 THEN (used * 100) \div total ELSE 0

\* Lines 227-232: vramPercent stays at its initial -1 unless the total is non-zero.
\* The amounts are counted in GiB, so that used * 100 is exact.
GPUVramPercent(used, total) == IF total # 0 THEN (used * 100) \div total ELSE -1

\* Lines 209-251: one iteration of the device loop, after the handle lookup.
\* Gives the instance, the device's record and the kinds whose read raised.
GPUDeviceStep(g, i, o) ==
    LET u == GPUUtilization(g, o)
        ru == GPUReadsUtilization(g, i)
        g1 == IF ru /\ u.exc THEN [g EXCEPT !.switchGPU = FALSE] ELSE g
        m == GPUMemoryInfo(g1, o)
        rm == GPUReadsVRAM(g1, i)
        g2 == IF rm /\ m.exc THEN [g1 EXCEPT !.switchVRAM = FALSE] ELSE g1
        t == GPUTemperature(g2, o)
        rt == GPUReadsTemperature(g2, i)
        g3 == IF rt /\ t.exc THEN [g2 EXCEPT !.switchTemperature = FALSE] ELSE g2
    IN  [g |-> g3,
         rec |-> [gpu_utilization |-> IF ru /\ ~u.exc THEN u.val ELSE -1,
                  gpu_temperature |-> IF rt /\ ~t.exc THEN t.val ELSE -1,
                  vram_total |-> IF rm /\ ~m.exc THEN m.total ELSE -1,
                  vram_used |-> IF rm /\ ~m.exc THEN m.used ELSE -1,
                  vram_used_percent |-> IF rm /\ ~m.exc
                                        THEN GPUVramPercent(m.used, m.total) ELSE -1],
         tripped |-> (IF ru /\ u.exc THEN {"utilization"} ELSE {})
                     \cup (IF rm /\ m.exc THEN {"vram"} ELSE {})
                     \cup (IF rt /\ t.exc THEN {"temperature"} ELSE {})]

\* Lines 206-251: the device loop from device i on.  An exception of the handle
\* lookup (line 207, outside any try) leaves the loop and getStatus().
RECURSIVE GPULoop(_, _, _, _, _)
GPULoop(g, outs, i, acc, tripped) ==
    IF i > g.cudaDevicesFound
    THEN [g |-> g, raised |-> FALSE, gpus |-> acc, tripped |-> tripped]
    ELSE IF GPUHandleRaises(g, outs[i])
    THEN [g |-> g, raised |-> TRUE, gpus |-> <<>>, tripped |-> tripped]
    ELSE LET r == GPUDeviceStep(g, i, outs[i])
         IN  GPULoop(r.g, outs, i + 1, Append(acc, r.rec), tripped \cup r.tripped)

\* getStatus(), lines 183-256.
GPUGetStatus(g, outs) ==
    IF g.cudaDevice = "cpu"
    THEN [g |-> g, raised |-> FALSE, gpus |-> <<GPUSentinelRecord>>, tripped |-> {}]
    ELSE IF g.anygpuLoaded /\ g.cuda /\ g.cudaAvailable
    THEN GPULoop(g, outs, 1, <<>>, {})
    ELSE [g |-> g, raised |-> FALSE, gpus |-> <<>>, tripped |-> {}]

GetStatus ==
    /\ component = "gpu"
    /\ \E fault \in GPUFaults(gpu.cudaDevicesFound) :
         LET outs == [i \in 1..gpu.cudaDevicesFound |-> GPUOutcome(fault, i)]
             r == GPUGetStatus(gpu, outs)
         IN  /\ gpu' = r.g
             /\ gpu_tripped' = gpu_tripped \cup r.tripped
             /\ gpu_status' = [raised |-> r.raised,
                               device_type |-> IF r.raised THEN "none" ELSE gpu.cudaDevice,
                               gpus |-> r.gpus]
    /\ gpu_call' = GPUNoCall
    /\ UNCHANGED <<component, clsvars, ts_retry, lockvars, setvars, smvars, tsvars, hwvars, gpu_patches, gpu_cleanups>>

\* CHardwareInfo.switchGPU setter (hardware.py 27-29).
SetSwitchGPU ==
    /\ component = "gpu"
    /\ \E v \in BOOLEAN :
         /\ v # gpu.switchGPU
         /\ gpu' = [gpu EXCEPT !.switchGPU = v]
    /\ gpu_status' = GPUNoStatus
    /\ gpu_call' = GPUNoCall
    /\ UNCHANGED <<component, clsvars, ts_retry, lockvars, setvars, smvars, tsvars, hwvars, gpu_tripped, gpu_patches, gpu_cleanups>>

\* CHardwareInfo.switchVRAM setter (hardware.py 34-36).
SetSwitchVRAM ==
    /\ component = "gpu"
    /\ \E v \in BOOLEAN :
         /\ v # gpu.switchVRAM
         /\ gpu' = [gpu EXCEPT !.switchVRAM = v]
    /\ gpu_status' = GPUNoStatus
    /\ gpu_call' = GPUNoCall
    /\ UNCHANGED <<component, clsvars, ts_retry, lockvars, setvars, smvars, tsvars, hwvars, gpu_tripped, gpu_patches, gpu_cleanups>>

\* What a PATCH /crystools/monitor/GPU/{index} request can carry.  The index is the
\* text of the path segment: a decimal integer (val), or text int() rejects.  A
\* field is absent (or null), a boolean, or a value that is not a boolean.
PatchIndexInputs ==
    [numeric : {TRUE}, val : (-1)..NumDevices] \cup {[numeric |-> FALSE, val |-> 0]}

PatchFieldInputs == {"absent", "true", "false", "bad"}

\* An assignment that extends the list when the index is the list's length.
PyListAssignGrows(list, index, value) ==
    LET n == Len(list)
    IN  IF ~index.numeric \/ index.val > n \/ index.val < -n
        THEN [list |-> list, raised |-> TRUE]
        ELSE IF index.val = n
        THEN [list |-> Append(list, value), raised |-> FALSE]
        ELSE LET pos == IF index.val >= 0 THEN index.val + 1 ELSE n + index.val + 1
             IN  [list |-> [list EXCEPT ![pos] = value], raised |-> FALSE]

\* list[int(index)] = value, as Python evaluates it (monitor.py 108, 114, 120):
\* int() raises on text that is no integer, an index i with -len <= i < 0 denotes
\* element len + i, and any other index outside 0 .. len-1 raises IndexError.
\* Gives the list and whether the assignment raised.
PyListAssign(list, index, value) ==
    LET n == Len(list)
    IN  IF ~index.numeric \/ index.val >= n \/ index.val < -n
        THEN [list |-> list, raised |-> TRUE]
        ELSE LET pos == IF index.val >= 0 THEN index.val + 1 ELSE n + index.val + 1
             IN  [list |-> [list EXCEPT ![pos] = value], raised |-> FALSE]

\* One field of the request (monitor.py 104-108, 110-114, 116-120); r is the
\* instance and whether an earlier field of the request raised.
GPUPatchField(r, name, field, index) ==
    IF r.raised \/ field = "absent" THEN r
    ELSE IF field = "bad" THEN [r EXCEPT !.raised = TRUE]
    ELSE LET x == PyListAssign(r.g[name], index, field = "true")
         IN  [g |-> [r.g EXCEPT ![name] = x.list], raised |-> x.raised]

\* The handler's body, monitor.py 101-125: the three fields in the order of the code.
GPUPatch(g, index, u, v, t) ==
    GPUPatchField(
        GPUPatchField(
            GPUPatchField([g |-> g, raised |-> FALSE], "gpusUtilization", u, index),
            "gpusVRAM", v, index),
        "gpusTemperature", t, index)

\* PATCH /crystools/monitor/GPU/{index} (server/monitor.py 99-125).
PatchGPUDevice ==
    /\ component = "patch"
    /\ gpu_patches < MaxPatches
    /\ gpu_patches' = gpu_patches + 1
    /\ \E index \in PatchIndexInputs, u \in PatchFieldInputs,
          v \in PatchFieldInputs, t \in PatchFieldInputs :
         LET r == GPUPatch(gpu, index, u, v, t)
         IN  /\ gpu' = r.g
             /\ gpu_call' = [GPUNoCall EXCEPT !.op = "patch", !.index = index,
                                              !.code = IF r.raised THEN 400 ELSE 200]
    /\ gpu_status' = GPUNoStatus
    /\ UNCHANGED <<component, clsvars, ts_retry, lockvars, setvars, smvars, tsvars, hwvars, gpu_tripped, gpu_cleanups>>

\* A test that ignores _closed.
GPUIsOperationalIgnoresClosed(g) == g.anygpuLoaded

\* is_operational(), lines 374-376.
GPUIsOperational(g) == g.anygpuLoaded /\ ~g.closed

\* The calls that initialization makes: the outcomes the attempts met and the delays
\* slept, as the loop of GPUInitRetry leaves them.
GPUInitCall(op, outs, ret) ==
    LET r == GPUInitRetry(outs, 0, INITIAL_RETRY_DELAY, <<>>)
    IN  [GPUNoCall EXCEPT !.op = op, !.met = SubSeq(outs, 1, r.attempts),
                          !.slept = r.slept, !.ret = ret]

\* CGPUInfo(), lines 62-67, on a host where the backend reports n devices.
GPUConstruct(jetson, outs, n, torchDevice, cudaAvailable) ==
    GPUSetupDevices(GPUInitLibrary([GPUDefaults EXCEPT !.IS_JETSON = jetson], outs),
                    n, torchDevice, cudaAvailable)

\* A reset that leaves the device list and the per-device switches as they are.
GPUResetStateKeepsLists(g) ==
    [g EXCEPT !.closed = FALSE, !.pynvmlLoaded = FALSE, !.jtopLoaded = FALSE,
              !.anygpuLoaded = FALSE, !.cudaDevicesFound = 0, !.cuda = FALSE]

\* reinitialize(), lines 387-397: the fields it resets.
GPUResetState(g) ==
    [g EXCEPT !.closed = FALSE, !.pynvmlLoaded = FALSE, !.jtopLoaded = FALSE,
              !.anygpuLoaded = FALSE, !.gpus = <<>>, !.gpusUtilization = <<>>,
              !.gpusVRAM = <<>>, !.gpusTemperature = <<>>,
              !.cudaDevicesFound = 0, !.cuda = FALSE]

\* reinitialize(), lines 378-408.  The torch device of the process stays as it is.
GPUReinitialize(g, outs, n) ==
    GPUSetupDevices(GPUInitLibrary(GPUResetState(g), outs), n,
                    g.torchDevice, g.cudaAvailable)

\* Some per-device switch of the instance is off.
GPUSomeDeviceSwitchOff(g) ==
    \/ \E i \in 1..Len(g.gpusUtilization) : ~g.gpusUtilization[i]
    \/ \E i \in 1..Len(g.gpusVRAM) : ~g.gpusVRAM[i]
    \/ \E i \in 1..Len(g.gpusTemperature) : ~g.gpusTemperature[i]

Reinitialize ==
    /\ component \in {"gpu", "patch"}
    /\ \E outs \in [1..MAX_INIT_RETRIES -> GPUInitOutcomes], n \in 0..NumDevices :
         /\ gpu' = GPUReinitialize(gpu, outs, n)
         /\ gpu_call' = [GPUInitCall("reinitialize", outs, GPUIsOperational(gpu'))
                           EXCEPT !.stale = GPUSomeDeviceSwitchOff(gpu)]
    /\ gpu_status' = GPUNoStatus
    /\ gpu_tripped' = {}
    /\ gpu_cleanups' = 0
    /\ UNCHANGED <<component, clsvars, ts_retry, lockvars, setvars, smvars, tsvars, hwvars, gpu_patches>>

\* A close() without the latch.
GPUCloseLatchedNever(g) == FALSE

\* Line 353: the latch.
GPUCloseLatched(g) == g.closed

\* Lines 359-372: the cleanup calls close() makes; each is inside its own try.
GPUCleanupCalls(g) ==
    (IF g.jtopLoaded THEN 1 ELSE 0) + (IF g.pynvmlLoaded THEN 1 ELSE 0)

\* Whether close() ends by raising when its cleanup call does: the handlers of
\* lines 363 and 371 take every Exception.
GPUCloseRaises(cleanupRaises) == FALSE

\* close(), lines 351-372.
GPUClose ==
    /\ component = "gpu"
    /\ \E cleanupRaises \in BOOLEAN :
         IF GPUCloseLatched(gpu)
         THEN /\ gpu_call' = [GPUNoCall EXCEPT !.op = "close", !.latched = TRUE]
              /\ UNCHANGED <<gpu, gpu_cleanups>>
         ELSE /\ gpu' = [gpu EXCEPT !.closed = TRUE]
              /\ gpu_cleanups' = gpu_cleanups + GPUCleanupCalls(gpu)
              /\ gpu_call' = [GPUNoCall EXCEPT
                                !.op = "close",
                                !.raised = GPUCleanupCalls(gpu) > 0
                                           /\ GPUCloseRaises(cleanupRaises)]
    /\ gpu_status' = GPUNoStatus
    /\ UNCHANGED <<component, clsvars, ts_retry, lockvars, setvars, smvars, tsvars, hwvars, gpu_tripped, gpu_patches>>

\* The instance after CGPUInfo() (lines 62-67), with what the constructor did, for
\* each host: Jetson or not, each course of the initialization attempts, each
\* device count, torch on the cpu or on cuda.
GPUConstructed ==
    {[g |-> GPUConstruct(j, outs, n, td, ca),
      call |-> GPUInitCall("init", outs, FALSE)] :
        j \in BOOLEAN, outs \in [1..MAX_INIT_RETRIES -> GPUInitOutcomes],
        n \in 0..NumDevices, td \in {"cpu", "cuda"}, ca \in BOOLEAN}

\* -------------------------------------------------------------------------
\* Several instances of CGPUInfo.  gpus, gpusUtilization, gpusVRAM and
\* gpusTemperature are attributes of the class (lines 53-56), and __init__
\* (lines 62-67) assigns none of them: an instance reads the class's list until
\* reinitialize() (lines 391-394) gives it lists of its own.  append (lines 156-164)
\* and the item assignment of the PATCH handler change the list object they find.

Instances == 1..NumInstances

GPUNoLists ==
    [gpus |-> <<>>, gpusUtilization |-> <<>>, gpusVRAM |-> <<>>, gpusTemperature |-> <<>>]

\* An instance that was not constructed.  own: the instance has list attributes of
\* its own, which are lists.
GPUNoInstance == [made |-> FALSE, own |-> FALSE, lists |-> GPUNoLists]

GPULists(g) ==
    [gpus |-> g.gpus, gpusUtilization |-> g.gpusUtilization, gpusVRAM |-> g.gpusVRAM,
     gpusTemperature |-> g.gpusTemperature]

GPUWithLists(g, l) ==
    [g EXCEPT !.gpus = l.gpus, !.gpusUtilization = l.gpusUtilization,
              !.gpusVRAM = l.gpusVRAM, !.gpusTemperature = l.gpusTemperature]

\* self.gpus and the three switch lists, as attribute lookup finds them: on the
\* instance, else on the class.
ClsLists(cls, inst) == IF inst.own THEN inst.lists ELSE cls

\* CGPUInfo() for instance i, on a host where pynvml loads and reports n devices.
ClsConstruct(i) ==
    /\ component = "class"
    /\ ~gpu_inst[i].made
    /\ \E n \in 0..NumDevices :
         LET g == GPUWithLists(GPUDefaults, ClsLists(gpu_cls, gpu_inst[i]))
             r == GPUSetupDevices(
                      GPUInitLibrary(g, [k \in 1..MAX_INIT_RETRIES |-> "ok"]),
                      n, "cuda", TRUE)
         IN  /\ gpu_cls' = GPULists(r)
             /\ gpu_inst' = [gpu_inst EXCEPT ![i].made = TRUE]
    /\ UNCHANGED <<component, ts_retry, lockvars, setvars, smvars, tsvars, gpuvars, hwvars>>

\* PATCH /crystools/monitor/GPU/{index} handled with instance i as
\* cmonitor.hardwareInfo.GPUInfo.
ClsPatch(i) ==
    /\ component = "class"
    /\ gpu_inst[i].made
    /\ gpu_patches < MaxPatches
    /\ gpu_patches' = gpu_patches + 1
    /\ \E index \in PatchIndexInputs, u \in PatchFieldInputs,
          v \in PatchFieldInputs, t \in PatchFieldInputs :
         LET g == GPUWithLists(GPUDefaults, ClsLists(gpu_cls, gpu_inst[i]))
             r == GPUPatch(g, index, u, v, t)
         IN  IF gpu_inst[i].own
             THEN /\ gpu_inst' = [gpu_inst EXCEPT ![i].lists = GPULists(r.g)]
                  /\ UNCHANGED gpu_cls
             ELSE /\ gpu_cls' = GPULists(r.g)
                  /\ UNCHANGED gpu_inst
    /\ UNCHANGED <<component, ts_retry, lockvars, setvars, smvars, tsvars, hwvars,
                   gpu, gpu_status, gpu_tripped, gpu_call, gpu_cleanups>>

\* reinitialize() of instance i: the four assignments of lines 391-394 make
\* instance attributes, and _setup_gpu_devices() appends to those.
ClsReinitialize(i) ==
    /\ component = "class"
    /\ gpu_inst[i].made
    /\ \E n \in 0..NumDevices :
         LET g == GPUWithLists(GPUDefaults, ClsLists(gpu_cls, gpu_inst[i]))
             r == GPUReinitialize(g, [k \in 1..MAX_INIT_RETRIES |-> "ok"], n)
         IN  gpu_inst' = [gpu_inst EXCEPT ![i].own = TRUE, ![i].lists = GPULists(r)]
    /\ UNCHANGED <<component, ts_retry, gpu_cls, lockvars, setvars, smvars, tsvars, gpuvars, hwvars>>

\* =========================================================================
\*  CHardwareInfo
\* =========================================================================

\* What psutil can give: a value, or an error.
HWReadOutcomes == {[exc |-> TRUE, val |-> -1], [exc |-> FALSE, val |-> 30]}

HWSentinelStatus ==
    [raised |-> FALSE, cpu_utilization |-> -1,
     ram_total |-> -1, ram_used |-> -1, ram_used_percent |-> -1,
     hdd_total |-> -1, hdd_used |-> -1, hdd_used_percent |-> -1]

\* getStatus(), lines 114-142: the cpu, ram and disk part.  cpu_percent() and
\* virtual_memory() are called outside any try; disk_usage() inside one.
HWGetStatus(h, c, r, d) ==
    IF (h.switchCPU /\ c.exc) \/ (h.switchRAM /\ r.exc)
    THEN [HWSentinelStatus EXCEPT !.raised = TRUE]
    ELSE [raised |-> FALSE,
          cpu_utilization |-> IF h.switchCPU THEN c.val ELSE -1,
          ram_total |-> IF h.switchRAM THEN 100 ELSE -1,
          ram_used |-> IF h.switchRAM THEN r.val ELSE -1,
          ram_used_percent |-> IF h.switchRAM THEN r.val ELSE -1,
          hdd_total |-> IF h.switchHDD /\ ~d.exc THEN 100 ELSE -1,
          hdd_used |-> IF h.switchHDD /\ ~d.exc THEN d.val ELSE -1,
          hdd_used_percent |-> IF h.switchHDD /\ ~d.exc THEN d.val ELSE -1]

HWGetStatusStep ==
    /\ component = "hw"
    /\ \E c \in HWReadOutcomes, r \in HWReadOutcomes, d \in HWReadOutcomes :
         hw_status' = HWGetStatus(hw, c, r, d)
    /\ UNCHANGED <<component, clsvars, ts_retry, lockvars, setvars, smvars, tsvars, gpuvars, hw>>

\* PATCH /crystools/monitor (server/monitor.py 24-36): switchCPU, switchRAM.
SetSwitchCPU ==
    /\ component = "hw"
    /\ hw' = [hw EXCEPT !.switchCPU = ~@]
    /\ UNCHANGED <<component, clsvars, ts_retry, lockvars, setvars, smvars, tsvars, gpuvars, hw_status>>

SetSwitchRAM ==
    /\ component = "hw"
    /\ hw' = [hw EXCEPT !.switchRAM = ~@]
    /\ UNCHANGED <<component, clsvars, ts_retry, lockvars, setvars, smvars, tsvars, gpuvars, hw_status>>

\* The attribute switchHDD (hardware.py 20, 54) is assigned by the owner.
SetSwitchHDD ==
    /\ component = "hw"
    /\ hw' = [hw EXCEPT !.switchHDD = ~@]
    /\ UNCHANGED <<component, clsvars, ts_retry, lockvars, setvars, smvars, tsvars, gpuvars, hw_status>>

\* =========================================================================
\*  PATCH /crystools/monitor
\* =========================================================================

\* The fields a request body can name: the rate and the seven feature switches.
\* The handler looks at the first five only.
SettingsSwitches ==
    {"switchCPU", "switchRAM", "switchHDD", "switchGPU", "switchVRAM",
     "switchTransferSpeed", "switchSharedGPUMemory"}

SettingsFields == {"rate"} \cup SettingsSwitches

\* The value of a field: absent (or null), a boolean (val 1 for true), a number, or
\* a text.
SettingsAbsent == [kind |-> "absent", val |-> 0]

SettingsValues(f) ==
    IF f = "rate"
    THEN [kind : {"number"}, val : 0..2] \cup {[kind |-> "text", val |-> 0]}
    ELSE [kind : {"bool"}, val : 0..1] \cup {[kind |-> "text", val |-> 0]}

\* The request bodies: at most MaxFields fields are named.
SettingsBodies ==
    UNION {
      {[f \in SettingsFields |-> IF f \in named THEN vals[f] ELSE SettingsAbsent] :
         vals \in {v \in [named -> [kind : {"bool", "number", "text"}, val : 0..2]] :
                     \A f \in named : v[f] \in SettingsValues(f)}} :
      named \in {n \in SUBSET SettingsFields : Cardinality(n) <= MaxFields}}

\* No request has been made.
SettingsNoRequest ==
    [pending |-> FALSE, body |-> [f \in SettingsFields |-> SettingsAbsent]]

\* The rate field as lines 12-15 see it: absent, a number, or no number.
SettingsRateField(body) ==
    IF body["rate"].kind = "absent" THEN [kind |-> "absent", val |-> 0]
    ELSE IF body["rate"].kind = "number" THEN [kind |-> "number", val |-> body["rate"].val]
    ELSE [kind |-> "bad", val |-> 0]

\* A switch field as lines 24-27 (31-34, 38-41, 45-48) see it.
SettingsSwitchField(body, name) ==
    IF body[name].kind = "absent" THEN "absent"
    ELSE IF body[name].kind = "bool"
    THEN (IF body[name].val = 1 THEN "true" ELSE "false")
    ELSE "bad"

\* No request has just ended.  started: the request called cmonitor.startMonitor().
SettingsNoCall == [code |-> 0, started |-> FALSE]

\* The state the handler works on: cmonitor.rate and the switches it can assign.
SettingsState(rate, h, t, m) ==
    [rate |-> rate, switchCPU |-> h.switchCPU, switchRAM |-> h.switchRAM,
     switchTransferSpeed |-> t.switchTransferSpeed,
     switchSharedGPUMemory |-> m.switchSharedGPUMemory,
     started |-> FALSE, raised |-> FALSE]

\* A rate field that starts the driver whenever the new rate is positive.
SettingsApplyRateAlwaysStarts(r, f) ==
    IF r.raised \/ f.kind = "absent" THEN r
    ELSE IF f.kind = "bad" THEN [r EXCEPT !.raised = TRUE]
    ELSE [r EXCEPT !.rate = f.val, !.started = (f.val > 0)]

\* monitor.py 12-21: the rate field.
SettingsApplyRate(r, f) ==
    IF r.raised \/ f.kind = "absent" THEN r
    ELSE IF f.kind = "bad" THEN [r EXCEPT !.raised = TRUE]
    ELSE [r EXCEPT !.rate = f.val, !.started = (r.rate = 0 /\ f.val > 0)]

\* monitor.py 24-29, 31-36, 38-43, 45-50: one switch field.
SettingsApplySwitch(r, name, f) ==
    IF r.raised \/ f = "absent" THEN r
    ELSE IF f = "bad" THEN [r EXCEPT !.raised = TRUE]
    ELSE [r EXCEPT ![name] = (f = "true")]

\* The handler's body, monitor.py 8-52: the fields in the order of the code.
SettingsApply(r, rate, c, m, t, g) ==
    SettingsApplySwitch(
        SettingsApplySwitch(
            SettingsApplySwitch(
                SettingsApplySwitch(SettingsApplyRate(r, rate), "switchCPU", c),
                "switchRAM", m),
            "switchTransferSpeed", t),
        "switchSharedGPUMemory", g)

\* A client sends PATCH /crystools/monitor with some body.
SettingsArrives ==
    /\ component = "settings"
    /\ ~settings_req.pending
    /\ \E body \in SettingsBodies :
         settings_req' = [pending |-> TRUE, body |-> body]
    /\ settings_call' = SettingsNoCall
    /\ UNCHANGED <<component, clsvars, ts_retry, lockvars, cm_rate, smvars, tsvars, gpuvars, hwvars>>

\* PATCH /crystools/monitor (server/monitor.py 6-55): the handler.  It reads the
\* rate and four of the switches; it does not look at switchHDD, switchGPU or
\* switchVRAM.
NewSettings ==
    /\ component = "settings"
    /\ settings_req.pending
    /\ LET b == settings_req.body
           r == SettingsApply(SettingsState(cm_rate, hw, ts, sm),
                              SettingsRateField(b),
                              SettingsSwitchField(b, "switchCPU"),
                              SettingsSwitchField(b, "switchRAM"),
                              SettingsSwitchField(b, "switchTransferSpeed"),
                              SettingsSwitchField(b, "switchSharedGPUMemory"))
       IN  /\ cm_rate' = r.rate
           /\ hw' = [hw EXCEPT !.switchCPU = r.switchCPU, !.switchRAM = r.switchRAM]
           /\ ts' = [ts EXCEPT !.switchTransferSpeed = r.switchTransferSpeed]
           /\ sm' = [sm EXCEPT !.switchSharedGPUMemory = r.switchSharedGPUMemory]
           /\ settings_call' = [code |-> IF r.raised THEN 400 ELSE 200,
                                started |-> r.started]
    /\ settings_req' = SettingsNoRequest
    /\ UNCHANGED <<component, clsvars, ts_retry, lockvars, gpuvars, sm_ret, sm_last, ts_pc, ts_local, ts_ret, ts_last,
                   hw_status>>

\* =========================================================================

\* The state after construction, for a behaviour of one of the components  cs.
InitIn(cs) ==
    /\ component \in cs
    /\ \E w \in BOOLEAN :
         sm = [SMInit EXCEPT !.IS_WINDOWS = IF component = "sm" THEN w ELSE TRUE]
    /\ sm_ret = SMSentinel
    /\ sm_last = [kind |-> "init", harvest |-> "none", submit |-> "none", polls |-> 0]
    /\ \E a \in BOOLEAN :
         ts = [TSInit EXCEPT !.cuda_available = IF component = "ts" THEN a ELSE TRUE]
    /\ ts_pc = [t \in Callers |-> "idle"]
    /\ ts_local = [t \in Callers |-> TSNoLocal]
    /\ ts_ret = TSSentinel
    /\ ts_last = [kind |-> "init"]
    /\ \E c \in GPUConstructed :
         /\ IF component \in {"gpu", "patch"} THEN TRUE
            ELSE c.g = GPUSetupDevices(GPUDefaults, 0, "cpu", FALSE)
                 /\ c.call.met = <<"import">>
         /\ gpu = c.g
         /\ gpu_call = c.call
    /\ gpu_cleanups = 0
    /\ gpu_status = GPUNoStatus
    /\ gpu_tripped = {}
    /\ gpu_patches = 0
    /\ hw \in (IF component = "hw"
               THEN [switchCPU : BOOLEAN, switchRAM : BOOLEAN, switchHDD : BOOLEAN]
               ELSE {[switchCPU |-> FALSE, switchRAM |-> FALSE, switchHDD |-> FALSE]})
    /\ hw_status = HWSentinelStatus
    /\ cm_rate \in (IF component = "settings" THEN 0..1 ELSE {0})
    /\ settings_call = SettingsNoCall
    /\ settings_req = SettingsNoRequest
    /\ sm_pc = [t \in Callers |-> "idle"]
    /\ sm_lock = 0
    /\ ts_lock = 0
    /\ gpu_cls = GPUNoLists
    /\ gpu_inst = [i \in Instances |-> GPUNoInstance]
    /\ ts_retry = TSNoRetry

Init == InitIn({"sm", "ts", "gpu", "hw", "patch", "settings"})

Next ==
    \/ GetSharedGPUMemoryInfo
    \/ SMProbeCompletes
    \/ SetSwitchSharedGPUMemory
    \/ SMClose
    \/ SMTick
    \/ \E t \in Callers : GetSpeedsEnter(t)
    \/ \E t \in Callers : GetSpeedsMeasureVram(t)
    \/ \E t \in Callers : GetSpeedsMeasureShared(t)
    \/ \E t \in Callers : GetSpeedsFinish(t)
    \/ SetSwitchTransferSpeed
    \/ TSTick
    \/ GetStatus
    \/ SetSwitchGPU
    \/ SetSwitchVRAM
    \/ PatchGPUDevice
    \/ Reinitialize
    \/ GPUClose
    \/ HWGetStatusStep
    \/ SetSwitchCPU
    \/ SetSwitchRAM
    \/ SetSwitchHDD
    \/ SettingsArrives
    \/ NewSettings

Spec == Init /\ [][Next]_vars

\* -------------------------------------------------------------------------
\* Several CGPUInfo instances in one process: constructions, reinitializations
\* and PATCH requests, in any order.

InitClass == InitIn({"class"})

NextClass ==
    \/ \E i \in Instances : ClsConstruct(i)
    \/ \E i \in Instances : ClsPatch(i)
    \/ \E i \in Instances : ClsReinitialize(i)

SpecClass == InitClass /\ [][NextClass]_vars

\* -------------------------------------------------------------------------
\* The two caches under the conditions of a running monitor: the feature switch
\* is on from construction (hardware.py 65, 69) and stays on, the executor is
\* open, the polling driver keeps calling, time advances, and every probe or
\* measurement that was started ends (the probe's subprocess has a timeout,
\* each measurement a bounded retry loop).

InitLive ==
    /\ component \in {"sm", "ts"}
    /\ sm = [SMInit EXCEPT !.switchSharedGPUMemory = (component = "sm")]
    /\ sm_ret = SMSentinel
    /\ sm_last = [kind |-> "init", harvest |-> "none", submit |-> "none", polls |-> 0]
    /\ \E a \in BOOLEAN :
         ts = [TSInit EXCEPT !.switchTransferSpeed = (component = "ts"),
                             !.cuda_available = IF component = "ts" THEN a ELSE TRUE]
    /\ ts_pc = [t \in Callers |-> "idle"]
    /\ ts_local = [t \in Callers |-> TSNoLocal]
    /\ ts_ret = TSSentinel
    /\ ts_last = [kind |-> "init"]
    /\ gpu = GPUSetupDevices(GPUDefaults, 0, "cpu", FALSE)
    /\ gpu_call = GPUInitCall("init", [k \in 1..MAX_INIT_RETRIES |-> "import"], FALSE)
    /\ gpu_cleanups = 0
    /\ gpu_status = GPUNoStatus
    /\ gpu_tripped = {}
    /\ gpu_patches = 0
    /\ hw = [switchCPU |-> FALSE, switchRAM |-> FALSE, switchHDD |-> FALSE]
    /\ hw_status = HWSentinelStatus
    /\ cm_rate = 0
    /\ settings_call = SettingsNoCall
    /\ settings_req = SettingsNoRequest
    /\ sm_pc = [t \in Callers |-> "idle"]
    /\ sm_lock = 0
    /\ ts_lock = 0
    /\ gpu_cls = GPUNoLists
    /\ gpu_inst = [i \in Instances |-> GPUNoInstance]
    /\ ts_retry = TSNoRetry

NextLive ==
    \/ GetSharedGPUMemoryInfo
    \/ SMProbeCompletes
    \/ SMTick
    \/ \E t \in Callers : GetSpeedsEnter(t)
    \/ \E t \in Callers : GetSpeedsMeasureVram(t)
    \/ \E t \in Callers : GetSpeedsMeasureShared(t)
    \/ \E t \in Callers : GetSpeedsFinish(t)
    \/ TSTick

FairLive ==
    /\ WF_vars(GetSharedGPUMemoryInfo)
    /\ WF_vars(SMProbeCompletes)
    /\ WF_vars(SMTick)
    /\ \A t \in Callers :
         /\ WF_vars(GetSpeedsEnter(t))
         /\ WF_vars(GetSpeedsMeasureVram(t))
         /\ WF_vars(GetSpeedsMeasureShared(t))
         /\ WF_vars(GetSpeedsFinish(t))
    /\ WF_vars(TSTick)

SpecLive == InitLive /\ [][NextLive]_vars /\ FairLive

\* -------------------------------------------------------------------------
\* The two caches with their locks.  Above, a section of code that runs under
\* `with self._lock` is one step.  Here the lock is a variable: a thread waits at
\* the with statement until the lock is free, takes it, runs the section and
\* releases it at the section's end; the measurements run between the two locked
\* sections of get_speeds(), the probe on the executor's worker.  The feature
\* switch is as the constructor was given it (hardware.py 65, 69).

\* get_shared_gpu_memory_info(), lines 158-170: the tests that precede the lock.
SMLockCall(t) ==
    /\ component = "sm"
    /\ sm_pc[t] = "idle"
    /\ IF ~SMEnabled(sm)
       THEN /\ sm_ret' = SMSentinel
            /\ sm_last' = [sm_last EXCEPT !.kind = "off", !.harvest = "none",
                                          !.submit = "none"]
            /\ UNCHANGED sm_pc
       ELSE /\ sm_pc' = [sm_pc EXCEPT ![t] = "wait"]
            /\ UNCHANGED <<sm_ret, sm_last>>
    /\ UNCHANGED <<component, clsvars, ts_retry, sm, sm_lock, ts_lock, setvars, tsvars, gpuvars, hwvars>>

\* An acquire that lets the thread pass without taking the lock.
SMLockSkipped(t) ==
    /\ component = "sm"
    /\ sm_pc[t] = "wait"
    /\ sm_pc' = [sm_pc EXCEPT ![t] = "locked"]
    /\ UNCHANGED <<component, clsvars, ts_retry, sm_lock, smvars, ts_lock, setvars, tsvars, gpuvars, hwvars>>

\* Line 172: with self._lock.
SMLockAcquire(t) ==
    /\ component = "sm"
    /\ sm_pc[t] = "wait"
    /\ sm_lock = 0
    /\ sm_lock' = t
    /\ sm_pc' = [sm_pc EXCEPT ![t] = "locked"]
    /\ UNCHANGED <<component, clsvars, ts_retry, smvars, ts_lock, setvars, tsvars, gpuvars, hwvars>>

\* Lines 173-219: the locked section (harvest, dispatch, return) and the release.
SMLockedPoll(t) ==
    /\ component = "sm"
    /\ sm_pc[t] = "locked"
    /\ \E h \in {SMHarvest(sm)} :
       \E d \in {SMDispatch(h)}, k \in {SMSubmitKind(h)} :
           /\ sm' = d
           /\ sm_ret' = IF k = "raised" THEN sm_ret ELSE SMCached(d)
           /\ sm_last' = [kind |-> IF k = "raised" THEN "raised" ELSE "poll",
                          harvest |-> SMHarvestKind(sm),
                          submit |-> k,
                          polls |-> IF k = "ok" THEN 1
                                    ELSE IF Len(d.futures) = 0 THEN 0
                                    ELSE Min(sm_last.polls + 1, MaxPolls)]
    /\ sm_lock' = IF sm_lock = t THEN 0 ELSE sm_lock
    /\ sm_pc' = [sm_pc EXCEPT ![t] = "idle"]
    /\ UNCHANGED <<component, clsvars, ts_retry, ts_lock, setvars, tsvars, gpuvars, hwvars>>

\* get_speeds(), lines 204-208: the switch test that precedes the lock.
TSLockCall(t) ==
    /\ component = "ts"
    /\ ts_pc[t] = "idle"
    /\ IF ~ts.switchTransferSpeed
       THEN /\ ts_ret' = TSSentinel
            /\ ts_last' = [kind |-> "off"]
            /\ UNCHANGED ts_pc
       ELSE /\ ts_pc' = [ts_pc EXCEPT ![t] = "wait"]
            /\ UNCHANGED <<ts_ret, ts_last>>
    /\ UNCHANGED <<component, clsvars, ts_retry, ts, ts_local, lockvars, setvars, smvars, gpuvars, hwvars>>

\* Lines 210, 235 and 258: with self._lock.
TSLockAcquire(t) ==
    /\ component = "ts"
    /\ ts_pc[t] \in {"wait", "finish"}
    /\ ts_lock = 0
    /\ ts_lock' = t
    /\ ts_pc' = [ts_pc EXCEPT ![t] = IF ts_pc[t] = "wait" THEN "locked1" ELSE "locked2"]
    /\ UNCHANGED <<component, clsvars, ts_retry, ts, ts_local, ts_ret, ts_last, sm_pc, sm_lock,
                   setvars, smvars, gpuvars, hwvars>>

\* Lines 211-225: the first locked section and the release.
TSLockedEnter(t) ==
    /\ component = "ts"
    /\ ts_pc[t] = "locked1"
    /\ IF TSMeasuring(ts)
       THEN /\ ts_ret' = TSCached(ts)
            /\ ts_last' = [kind |-> "busy"]
            /\ ts_pc' = [ts_pc EXCEPT ![t] = "idle"]
            /\ UNCHANGED <<ts, ts_local>>
       ELSE IF ~TSShouldMeasure(ts)
       THEN /\ ts' = TSShouldMeasureState(ts)
            /\ ts_ret' = TSCached(ts)
            /\ ts_last' = [kind |-> IF ts.in_cooldown /\ ~TSCooldownElapsed(ts)
                                    THEN "cooldown" ELSE "interval"]
            /\ ts_pc' = [ts_pc EXCEPT ![t] = "idle"]
            /\ UNCHANGED ts_local
       ELSE /\ ts' = [TSShouldMeasureState(ts) EXCEPT !.measuring = TRUE]
            /\ ts_pc' = [ts_pc EXCEPT ![t] = "vram"]
            /\ ts_local' = [ts_local EXCEPT ![t] = TSNoLocal]
            /\ UNCHANGED <<ts_ret, ts_last>>
    /\ ts_lock' = IF ts_lock = t THEN 0 ELSE ts_lock
    /\ UNCHANGED <<component, clsvars, ts_retry, sm_pc, sm_lock, setvars, smvars, gpuvars, hwvars>>

\* Lines 236-254, or 259-265 in the except handler: the second locked section,
\* the release and the return.
TSLockedFinish(t) ==
    /\ component = "ts"
    /\ ts_pc[t] = "locked2"
    /\ ts' = IF ts_local[t].raised THEN TSExcept(ts)
             ELSE TSUpdate(ts, ts_local[t].vram_speed, ts_local[t].shared_speed)
    /\ ts_ret' = TSCached(ts')
    /\ ts_last' = [kind |-> IF ts_local[t].raised THEN "raised" ELSE "measured",
                    skipped |-> ts_local[t].skipped]
    /\ ts_pc' = [ts_pc EXCEPT ![t] = "idle"]
    /\ ts_local' = [ts_local EXCEPT ![t] = TSNoLocal]
    /\ ts_lock' = IF ts_lock = t THEN 0 ELSE ts_lock
    /\ UNCHANGED <<component, clsvars, ts_retry, sm_pc, sm_lock, setvars, smvars, gpuvars, hwvars>>

InitLock ==
    /\ component \in {"sm", "ts"}
    /\ \E v \in BOOLEAN :
         sm = [SMInit EXCEPT !.switchSharedGPUMemory = (v /\ component = "sm")]
    /\ sm_ret = SMSentinel
    /\ sm_last = [kind |-> "init", harvest |-> "none", submit |-> "none", polls |-> 0]
    /\ \E a, v \in BOOLEAN :
         ts = [TSInit EXCEPT !.switchTransferSpeed = (v /\ component = "ts"),
                             !.cuda_available = IF component = "ts" THEN a ELSE TRUE]
    /\ ts_pc = [t \in Callers |-> "idle"]
    /\ ts_local = [t \in Callers |-> TSNoLocal]
    /\ ts_ret = TSSentinel
    /\ ts_last = [kind |-> "init"]
    /\ gpu = GPUSetupDevices(GPUDefaults, 0, "cpu", FALSE)
    /\ gpu_call = GPUInitCall("init", [k \in 1..MAX_INIT_RETRIES |-> "import"], FALSE)
    /\ gpu_cleanups = 0
    /\ gpu_status = GPUNoStatus
    /\ gpu_tripped = {}
    /\ gpu_patches = 0
    /\ hw = [switchCPU |-> FALSE, switchRAM |-> FALSE, switchHDD |-> FALSE]
    /\ hw_status = HWSentinelStatus
    /\ cm_rate = 0
    /\ settings_call = SettingsNoCall
    /\ settings_req = SettingsNoRequest
    /\ sm_pc = [t \in Callers |-> "idle"]
    /\ sm_lock = 0
    /\ ts_lock = 0
    /\ gpu_cls = GPUNoLists
    /\ gpu_inst = [i \in Instances |-> GPUNoInstance]
    /\ ts_retry = TSNoRetry

NextLock ==
    \/ \E t \in Callers : SMLockCall(t)
    \/ \E t \in Callers : SMLockAcquire(t)
    \/ \E t \in Callers : SMLockedPoll(t)
    \/ SMProbeCompletes
    \/ SMTick
    \/ \E t \in Callers : TSLockCall(t)
    \/ \E t \in Callers : TSLockAcquire(t)
    \/ \E t \in Callers : TSLockedEnter(t)
    \/ \E t \in Callers : GetSpeedsMeasureVram(t)
    \/ \E t \in Callers : GetSpeedsMeasureShared(t)
    \/ \E t \in Callers : TSLockedFinish(t)
    \/ TSTick

SpecLock == InitLock /\ [][NextLock]_vars

\* -------------------------------------------------------------------------
\* One sub-measurement, for every course of its attempts.

InitRetry ==
    /\ component = "ts"
    /\ sm = SMInit
    /\ sm_ret = SMSentinel
    /\ sm_last = [kind |-> "init", harvest |-> "none", submit |-> "none", polls |-> 0]
    /\ ts = TSInit
    /\ ts_pc = [t \in Callers |-> "idle"]
    /\ ts_local = [t \in Callers |-> TSNoLocal]
    /\ ts_ret = TSSentinel
    /\ ts_last = [kind |-> "init"]
    /\ gpu = GPUSetupDevices(GPUDefaults, 0, "cpu", FALSE)
    /\ gpu_call = GPUInitCall("init", [k \in 1..MAX_INIT_RETRIES |-> "import"], FALSE)
    /\ gpu_cleanups = 0
    /\ gpu_status = GPUNoStatus
    /\ gpu_tripped = {}
    /\ gpu_patches = 0
    /\ hw = [switchCPU |-> FALSE, switchRAM |-> FALSE, switchHDD |-> FALSE]
    /\ hw_status = HWSentinelStatus
    /\ cm_rate = 0
    /\ settings_call = SettingsNoCall
    /\ settings_req = SettingsNoRequest
    /\ sm_pc = [t \in Callers |-> "idle"]
    /\ sm_lock = 0
    /\ ts_lock = 0
    /\ gpu_cls = GPUNoLists
    /\ gpu_inst = [i \in Instances |-> GPUNoInstance]
    /\ \E w \in {"vram", "shared"}, a \in BOOLEAN, v \in BOOLEAN,
          outs \in [1..TS_MAX_MEASUREMENT_RETRIES -> TSAttemptOutcomes] :
         ts_retry = [TSNoRetry EXCEPT !.pc = "guard", !.which = w,
                                      !.cuda_available = a,
                                      !.switchTransferSpeed = v, !.outs = outs]

NextRetry ==
    \/ TSRetryGuard
    \/ TSRetryAttempt
    \/ TSRetryExhausted

SpecRetry == InitRetry /\ [][NextRetry]_vars

\* =========================================================================
\*  Claims
\* =========================================================================

SMPollStep == GetSharedGPUMemoryInfo /\ SMEnabled(sm)
SMProbeRunning(c) == c.pending_future # 0 /\ ~c.futures[c.pending_future].done

\* C1: get_shared_gpu_memory_info() (switch on, Windows) never waits for a probe.
\* A call made while the pending probe is running leaves that probe running and
\* pending, and returns the values cached before the call; a call that dispatches a
\* probe returns the values cached before the call as well.
C1_NeverWaitsForProbe ==
    [][SMPollStep =>
         /\ SMProbeRunning(sm) =>
              /\ sm'.futures = sm.futures
              /\ sm'.pending_future = sm.pending_future
              /\ sm_ret' = SMCached(sm)
         /\ sm_last'.submit = "ok" =>
              /\ SMProbeRunning(sm')
              /\ sm_ret' = SMCached(sm)]_vars

\* A poll found a running probe more than once, and returned a cached usage.
C1_Witness ==
    /\ component = "sm"
    /\ sm_last.kind = "poll" /\ sm_last.submit = "busy" /\ sm_last.polls >= 2
    /\ SMProbeRunning(sm)
    /\ sm_ret.shared_gpu_memory_used = 100

\* C3: at most one probe of the shared-memory cache is submitted and not yet
\* harvested, however many polls arrive while it is outstanding.
C3_AtMostOneProbe ==
    /\ Len(sm.futures) <= 1
    /\ sm.query_in_progress <=> sm.pending_future # 0
    /\ sm.pending_future = Len(sm.futures)

\* MaxPolls polls since the submit, and still the one probe.
C3_Witness ==
    /\ component = "sm"
    /\ sm_last.polls = MaxPolls
    /\ Len(sm.futures) = 1 /\ SMProbeRunning(sm)

\* C2: get_speeds() never runs the benchmark on the calling thread: no thread that
\* called get_speeds() is ever inside measure_vram_speed() or
\* measure_shared_gpu_memory_speed(), and no call returns a measurement it made.
C2_BenchmarkOffCallingThread ==
    /\ \A t \in Callers : ts_pc[t] \notin {"vram", "shared"}
    /\ ts_last.kind # "measured"

TSFinishStep(t) == ts_pc[t] = "finish" /\ ts_pc'[t] = "idle"
TSReturnStep == ts_last'.kind \in {"busy", "cooldown", "interval", "measured", "raised"}
                /\ (\E t \in Callers : GetSpeedsEnter(t) \/ GetSpeedsFinish(t))

\* C4: a cached successful value is replaced only by the result of a later
\* successful probe of the same field, and an enabled poll returns the cached value.
C4_FailureKeepsCachedValue ==
    [][/\ (sm.shared_gpu_memory_used >= 0
             /\ sm'.shared_gpu_memory_used # sm.shared_gpu_memory_used)
          => /\ SMPollStep /\ sm_last'.harvest = "ok"
             /\ sm'.shared_gpu_memory_used = sm.futures[sm.pending_future].used
             /\ sm'.shared_gpu_memory_used >= 0
       /\ SMPollStep => sm_ret'.shared_gpu_memory_used = sm'.shared_gpu_memory_used
       /\ (ts.last_vram_speed > 0 /\ ts'.last_vram_speed # ts.last_vram_speed)
          => \E t \in Callers :
                /\ TSFinishStep(t) /\ ~ts_local[t].raised
                /\ ts_local[t].vram_speed > 0
                /\ ts'.last_vram_speed = ts_local[t].vram_speed
       /\ (ts.last_shared_speed > 0 /\ ts'.last_shared_speed # ts.last_shared_speed)
          => \E t \in Callers :
                /\ TSFinishStep(t) /\ ~ts_local[t].raised
                /\ ts_local[t].shared_speed > 0
                /\ ts'.last_shared_speed = ts_local[t].shared_speed
       /\ TSReturnStep => ts_ret' = TSCached(ts')]_vars

\* A usage of 100 was cached, later probes failed up to the cooldown, and the poll
\* that took the last failure returned 100.
C4_Witness ==
    /\ component = "sm"
    /\ sm_last.kind = "poll" /\ sm_last.harvest \in {"fail", "exc"}
    /\ sm.in_cooldown
    /\ sm.shared_gpu_memory_used = 100 /\ sm_ret.shared_gpu_memory_used = 100

\* C5: a poll that finds the failure counter at the threshold dispatches a probe only
\* when the cooldown duration has passed since the last recorded failure, and a
\* poll whose own harvest brings the counter to the threshold dispatches nothing.
C5_CooldownBreaker ==
    [][/\ (SMPollStep /\ sm_last'.submit = "ok")
          => /\ sm.consecutive_failures >= SM_MAX_CONSECUTIVE_FAILURES
                  => sm.failure_age >= SM_FAILURE_COOLDOWN
             /\ sm_last'.harvest \in {"fail", "exc"}
                  => sm.consecutive_failures + 1 < SM_MAX_CONSECUTIVE_FAILURES
       /\ \A t \in Callers :
            (GetSpeedsEnter(t) /\ ts_pc'[t] = "vram")
            => (ts.consecutive_failures >= TS_MAX_MEASUREMENT_RETRIES
                  => ts.failure_age >= TS_FAILURE_COOLDOWN)]_vars

\* The transfer-speed cache is in cooldown, the interval has passed, and a poll was
\* turned away by the cooldown.
C5_Witness ==
    /\ component = "ts"
    /\ ts.in_cooldown /\ ts.consecutive_failures = TS_MAX_MEASUREMENT_RETRIES
    /\ ts_last.kind = "cooldown"
    /\ ts.measurement_age >= TS_measurement_interval
    /\ ts.failure_age < TS_FAILURE_COOLDOWN

\* C6: a successful probe leaves the failure counter at 0 and the cooldown flag
\* clear; the counter grows only in a step that records a failure, and the cooldown
\* starts only with the counter at the threshold.
C6_SuccessResetsFailures ==
    [][/\ (SMPollStep /\ sm_last'.harvest = "ok")
          => (sm'.consecutive_failures = 0 /\ ~sm'.in_cooldown)
       /\ sm'.consecutive_failures > sm.consecutive_failures
          => (SMPollStep /\ (sm_last'.harvest \in {"fail", "exc"}
                             \/ sm_last'.submit = "rejected"))
       /\ (sm'.in_cooldown /\ ~sm.in_cooldown)
          => sm'.consecutive_failures >= SM_MAX_CONSECUTIVE_FAILURES
       /\ \A t \in Callers :
            (GetSpeedsFinish(t) /\ ~ts_local[t].raised
               /\ ts_local[t].vram_speed > 0 /\ ts_local[t].shared_speed > 0)
            => (ts'.consecutive_failures = 0 /\ ~ts'.in_cooldown)
       /\ ts'.consecutive_failures > ts.consecutive_failures
          => \E t \in Callers :
                /\ GetSpeedsFinish(t)
                /\ \/ ts_local[t].raised
                   \/ ts_local[t].vram_speed < 0
                   \/ ts_local[t].shared_speed < 0
       /\ (ts'.in_cooldown /\ ~ts.in_cooldown)
          => ts'.consecutive_failures >= TS_MAX_MEASUREMENT_RETRIES]_vars

\* A probe succeeded less than a cooldown after a recorded failure: counter 0.
C6_Witness ==
    /\ component = "sm"
    /\ sm_last.kind = "poll" /\ sm_last.harvest = "ok"
    /\ sm.failure_age < SM_FAILURE_COOLDOWN
    /\ sm.consecutive_failures = 0 /\ ~sm.in_cooldown

SMFailuresRecorded(l) ==
    (IF l.harvest \in {"fail", "exc"} THEN 1 ELSE 0)
    + (IF l.submit = "rejected" THEN 1 ELSE 0)

\* C8: neither call raises.  A probe that returned the failure value, a probe that
\* raised and a rejected submit each add one to the failure counter, and the call
\* returns the cached values.
C8_NeverRaises ==
    [][/\ SMPollStep
          => /\ sm_last'.kind = "poll"
             /\ sm_ret' = SMCached(sm')
             /\ SMFailuresRecorded(sm_last') > 0
                  => sm'.consecutive_failures =
                       (IF sm_last'.harvest = "none" /\ sm.in_cooldown
                        THEN 0 ELSE sm.consecutive_failures)
                       + SMFailuresRecorded(sm_last')
             /\ sm_last'.submit = "rejected"
                  => ~sm'.query_in_progress /\ sm'.pending_future = 0
       /\ \A t \in Callers :
            (GetSpeedsFinish(t)
               /\ (ts_local[t].raised \/ ts_local[t].vram_speed < 0
                   \/ ts_local[t].shared_speed < 0))
            => /\ ts'.consecutive_failures = ts.consecutive_failures + 1
               /\ ~ts'.measuring
               /\ ts_ret' = TSCached(ts')
               /\ ts_pc'[t] = "idle"]_vars

\* After close() a poll's submit was rejected; the call returned the cached usage.
C8_Witness ==
    /\ component = "sm"
    /\ sm.shutdown
    /\ sm_last.kind = "poll" /\ sm_last.submit = "rejected"
    /\ sm_last.harvest = "exc"
    /\ sm_ret.shared_gpu_memory_used = 100

\* The values one device record reports for a metric kind.
GPUKindFields(rec, k) ==
    CASE k = "utilization" -> {rec.gpu_utilization}
      [] k = "vram" -> {rec.vram_total, rec.vram_used, rec.vram_used_percent}
      [] k = "temperature" -> {rec.gpu_temperature}

GPUReportsSentinel(status, k) ==
    \A i \in 1..Len(status.gpus) : GPUKindFields(status.gpus[i], k) = {-1}

\* C7: a call that finds its feature switch false returns the sentinel for every
\* field the switch owns, whatever is cached: get_speeds() -1, -1 without entering
\* a measurement; get_shared_gpu_memory_info() -1, -1, -1; getStatus() -1 for the
\* utilization (switchGPU) and the three VRAM fields (switchVRAM) of every device;
\* CHardwareInfo.getStatus() -1 for the cpu, ram and disk fields.
C7_SwitchOffGivesSentinel ==
    [][/\ (GetSharedGPUMemoryInfo /\ ~sm.switchSharedGPUMemory)
          => (sm_ret' = SMSentinel /\ sm' = sm)
       /\ \A t \in Callers :
            (GetSpeedsEnter(t) /\ ~ts.switchTransferSpeed)
            => (ts_ret' = TSSentinel /\ ts_pc'[t] = "idle" /\ ts' = ts)
       /\ (GetStatus /\ ~gpu_status'.raised)
          => /\ ~gpu.switchGPU => GPUReportsSentinel(gpu_status', "utilization")
             /\ ~gpu.switchVRAM => GPUReportsSentinel(gpu_status', "vram")
       /\ (HWGetStatusStep /\ ~hw_status'.raised)
          => /\ ~hw.switchCPU => hw_status'.cpu_utilization = -1
             /\ ~hw.switchRAM
                  => {hw_status'.ram_total, hw_status'.ram_used,
                      hw_status'.ram_used_percent} = {-1}
             /\ ~hw.switchHDD
                  => {hw_status'.hdd_total, hw_status'.hdd_used,
                      hw_status'.hdd_used_percent} = {-1}]_vars

\* A usage of 100 is cached and the switch is off: the call returned the sentinel.
C7_Witness ==
    /\ component = "sm"
    /\ ~sm.switchSharedGPUMemory
    /\ sm.shared_gpu_memory_used = 100
    /\ sm_last.kind = "off"
    /\ sm_ret = SMSentinel

\* C9: no getStatus() call of CGPUInfo ends by raising.
C9_GetStatusNeverRaises == ~gpu_status.raised

\* C10: once a read of a metric kind has raised in a getStatus() call, every later
\* getStatus() call reports -1 for that kind on every device.
C10_AutoDisabledKindStaysSentinel ==
    [][(GetStatus /\ ~gpu_status'.raised)
         => \A k \in gpu_tripped : GPUReportsSentinel(gpu_status', k)]_vars

\* The feature switch that guards the reads of a metric kind (lines 216, 224, 238).
GPUSwitchOf(g, k) ==
    CASE k = "utilization" -> g.switchGPU
      [] k = "vram" -> g.switchVRAM
      [] k = "temperature" -> g.switchTemperature

GPUReadsKind(g, i, k) ==
    CASE k = "utilization" -> GPUReadsUtilization(g, i)
      [] k = "vram" -> GPUReadsVRAM(g, i)
      [] k = "temperature" -> GPUReadsTemperature(g, i)

\* C11: a metric kind that a read error has switched off stays off in every step
\* that is not a reinitialize(): no setter, getStatus() call or other operation
\* turns it back on.
C11_AutoDisableIsLatch ==
    [][gpu_call'.op # "reinitialize"
         => \A k \in gpu_tripped :
              ~GPUSwitchOf(gpu, k) => ~GPUSwitchOf(gpu', k)]_vars

\* C12: after a reinitialize() that returns true, every kind that a read error had
\* switched off is read again for every device.
C12_ReinitializeClearsAutoDisable ==
    [][(gpu_call'.op = "reinitialize" /\ gpu_call'.ret)
         => \A k \in gpu_tripped :
              ~GPUSwitchOf(gpu, k)
              => \A i \in 1..gpu'.cudaDevicesFound : GPUReadsKind(gpu', i, k)]_vars

\* The device list and per-device switches of a fresh enumeration of m devices.
GPUFreshLists(g, m) ==
    /\ g.gpus = [i \in 1..m |-> [index |-> i - 1]]
    /\ g.gpusUtilization = [i \in 1..m |-> TRUE]
    /\ g.gpusVRAM = [i \in 1..m |-> TRUE]
    /\ g.gpusTemperature = [i \in 1..m |-> TRUE]

\* C13: after reinitialize() the device list and the three per-device switch arrays
\* are those of a fresh enumeration: one entry per device found by this call, every
\* switch true, nothing left from before; with no backend loaded they are empty.
C13_ReinitializeRebuildsLists ==
    [][gpu_call'.op = "reinitialize"
         => /\ GPUFreshLists(gpu', gpu'.cudaDevicesFound)
            /\ gpu'.cudaDevicesFound <= NumDevices
            /\ ~gpu'.anygpuLoaded => gpu'.cudaDevicesFound = 0
            /\ gpu'.jtopLoaded => gpu'.cudaDevicesFound = 1]_vars

\* reinitialize() was called with a per-device switch off and found two devices.
C13_Witness ==
    /\ gpu_call.op = "reinitialize" /\ gpu_call.stale /\ gpu_call.ret
    /\ gpu.cudaDevicesFound = 2
    /\ GPUFreshLists(gpu, 2)

GPUInitEnded == gpu_call.op \in {"init", "reinitialize"}

\* C15: an initialization makes at most MAX_INIT_RETRIES = 3 attempts and none after
\* an attempt that succeeded; it sleeps once between two attempts and nowhere else,
\* 1 s and then 2 s; when attempts 1 and 2 fail and attempt 3 succeeds the backend is
\* loaded and, with a device found, the instance is operational.
C15_InitRetryBackoff ==
    GPUInitEnded =>
      LET met == gpu_call.met
          slept == gpu_call.slept
      IN  /\ Len(met) \in 1..3
          /\ \A k \in 1..(Len(met) - 1) : met[k] # "ok"
          /\ Len(slept) = Len(met) - 1
          /\ Len(slept) >= 1 => slept[1] = 1
          /\ \A k \in 2..Len(slept) : slept[k] = 2 * slept[k - 1]
          /\ met = <<"error", "error", "ok">>
               => /\ slept = <<1, 2>>
                  /\ gpu.cudaDevicesFound > 0 => GPUIsOperational(gpu)
                  /\ gpu.cudaDevicesFound = 0 => ~gpu.IS_JETSON

\* The constructor succeeded at its third attempt, after sleeping 1 s and 2 s.
C15_Witness ==
    /\ gpu_call.op = "init"
    /\ gpu_call.met = <<"error", "error", "ok">>
    /\ gpu_call.slept = <<1, 2>>
    /\ GPUIsOperational(gpu) /\ gpu.pynvmlLoaded

\* C16: an initialization whose attempt meets an ImportError stops there; met at the
\* first attempt that is one attempt, no sleep, no backend loaded, not operational.
C16_ImportErrorEndsInit ==
    GPUInitEnded =>
      /\ \A k \in 1..(Len(gpu_call.met) - 1) : gpu_call.met[k] # "import"
      /\ gpu_call.met[1] = "import"
           => /\ Len(gpu_call.met) = 1
              /\ gpu_call.slept = <<>>
              /\ ~gpu.pynvmlLoaded /\ ~gpu.jtopLoaded
              /\ ~GPUIsOperational(gpu)
              /\ gpu.cudaDevicesFound = 0

\* The constructor met an ImportError: one attempt, and the instance is unavailable.
C16_Witness ==
    /\ gpu_call.op = "init"
    /\ gpu_call.met = <<"import">> /\ gpu_call.slept = <<>>
    /\ ~GPUIsOperational(gpu)
    /\ component = "gpu"

\* C17: when all three attempts of the constructor fail it still returns; the
\* instance is not operational and has no device, and a getStatus() call on it
\* returns its snapshot: the one sentinel record on the cpu, no record otherwise.
C17_ExhaustedRetriesDegrade ==
    [][(gpu_call.op = "init" /\ gpu_call.met = <<"error", "error", "error">>)
         => /\ ~gpu_call.raised
            /\ ~GPUIsOperational(gpu)
            /\ gpu.gpus = <<>> /\ gpu.cudaDevicesFound = 0
            /\ GetStatus
                 => /\ ~gpu_status'.raised
                    /\ gpu_status'.device_type = gpu.cudaDevice
                    /\ gpu_status'.gpus =
                         IF gpu.cudaDevice = "cpu" THEN <<GPUSentinelRecord>>
                         ELSE <<>>]_vars

\* getStatus() returned a snapshot with no device record from an instance that
\* holds no backend.
C17_Witness ==
    /\ component = "gpu"
    /\ ~gpu.anygpuLoaded /\ ~gpu.pynvmlLoaded /\ ~gpu.closed
    /\ gpu.cudaDevice = "cuda"
    /\ gpu_status = [raised |-> FALSE, device_type |-> "cuda", gpus |-> <<>>]

\* C18: in every record getStatus() returns, vram_used_percent is -1 when the memory
\* read reported a total of 0 and used / total * 100 when it reported a positive
\* total (4 GiB of 10 GiB gives 40); a record without a memory read holds -1 for
\* all three memory fields.
C18_VramPercentGuard ==
    \A i \in 1..Len(gpu_status.gpus) :
      LET rec == gpu_status.gpus[i]
      IN  /\ rec.vram_total = 0 => rec.vram_used_percent = -1
          /\ rec.vram_total > 0
               => /\ rec.vram_used_percent * rec.vram_total = rec.vram_used * 100
                  /\ (rec.vram_used = 4 /\ rec.vram_total = 10)
                       => rec.vram_used_percent = 40
          /\ rec.vram_total = -1
               => rec.vram_used = -1 /\ rec.vram_used_percent = -1

\* One getStatus() call returned a record for a device that reported a total of 0
\* and a record for a device that reported 4 GiB used of 10 GiB.
C18_Witness ==
    /\ ~gpu_status.raised
    /\ \E i, j \in 1..Len(gpu_status.gpus) :
         /\ gpu_status.gpus[i].vram_total = 0
         /\ gpu_status.gpus[i].vram_used = 4
         /\ gpu_status.gpus[i].vram_used_percent = -1
         /\ gpu_status.gpus[j].vram_total = 10
         /\ gpu_status.gpus[j].vram_used_percent = 40

\* C19: a settings request answered with an error changes nothing: after a
\* PATCH /crystools/monitor answered 400 the rate and the feature switches are what
\* they were, and after a PATCH /crystools/monitor/GPU/{index} answered 400 the
\* per-device switches are what they were.
C19_RejectedRequestMutatesNothing ==
    [][/\ (NewSettings /\ settings_call'.code = 400)
            => /\ cm_rate' = cm_rate /\ ~settings_call'.started
               /\ hw' = hw /\ ts' = ts /\ sm' = sm
       /\ (PatchGPUDevice /\ gpu_call'.code = 400) => gpu' = gpu]_vars

\* The index of a PATCH request denotes a device of the instance.
GPUIndexDenotesDevice(g, index) ==
    index.numeric /\ index.val >= 0 /\ index.val < g.cudaDevicesFound

\* C20: a PATCH /crystools/monitor/GPU/{index} whose index denotes no device
\* (negative, device count or more, no integer) is not applied: it leaves the three
\* per-device switch lists as they were.
C20_IndexBoundsChecked ==
    [][(PatchGPUDevice /\ ~GPUIndexDenotesDevice(gpu, gpu_call'.index))
         => /\ gpu'.gpusUtilization = gpu.gpusUtilization
            /\ gpu'.gpusVRAM = gpu.gpusVRAM
            /\ gpu'.gpusTemperature = gpu.gpusTemperature]_vars

\* C21: CHardwareInfo.getStatus() returns a snapshot whatever the reads of the cpu,
\* the ram and the disk meet; a read that raises gives -1 for its fields and never
\* ends the call.
C21_ReadErrorGivesSentinel == ~hw_status.raised

\* C22: a poll made while the feature is disabled (switch off for either cache, host
\* not Windows for the shared-memory cache) returns the fixed sentinel and leaves the
\* cache as it was: cached values, time stamps, failure counter, cooldown flag,
\* in-progress flag, pending future and the executor's queue; no measurement starts.
C22_DisabledPollTouchesNothing ==
    [][/\ (GetSharedGPUMemoryInfo /\ (~sm.switchSharedGPUMemory \/ ~sm.IS_WINDOWS))
            => sm' = sm /\ sm_ret' = SMSentinel
       /\ \A t \in Callers :
            (GetSpeedsEnter(t) /\ ~ts.switchTransferSpeed)
              => ts' = ts /\ ts_pc' = ts_pc /\ ts_local' = ts_local
                 /\ ts_ret' = TSSentinel]_vars

\* A poll found the switch off while a probe was in flight and a usage was cached:
\* it returned the sentinel.
C22_Witness ==
    /\ sm_last.kind = "off" /\ sm_ret = SMSentinel
    /\ ~sm.switchSharedGPUMemory
    /\ sm.query_in_progress /\ sm.pending_future # 0
    /\ sm.shared_gpu_memory_used = 100

\* C23: the cooldown ends.  With the switch on and the executor open, a poll made
\* when the cooldown window has passed clears the cooldown flag and sets the failure
\* counter to 0; and while polls keep arriving and time advances, a cache in cooldown
\* comes to dispatch a new probe (a new measurement) with the flag clear and the
\* counter at 0.
C23_CooldownIsTemporary ==
    /\ [][/\ (GetSharedGPUMemoryInfo /\ sm.switchSharedGPUMemory /\ sm.IS_WINDOWS
              /\ ~sm.shutdown /\ sm.in_cooldown
              /\ sm.failure_age >= SM_FAILURE_COOLDOWN)
               => ~sm'.in_cooldown /\ sm'.consecutive_failures = 0
           /\ \A t \in Callers :
                (GetSpeedsEnter(t) /\ ts.switchTransferSpeed /\ ~ts.measuring
                 /\ ts.in_cooldown /\ ts.failure_age >= TS_FAILURE_COOLDOWN)
                  => ~ts'.in_cooldown /\ ts'.consecutive_failures = 0]_vars
    /\ sm.in_cooldown
         ~> (sm_last.submit = "ok" /\ sm.query_in_progress
             /\ ~sm.in_cooldown /\ sm.consecutive_failures = 0)
    /\ ts.in_cooldown
         ~> (ts.measuring /\ ~ts.in_cooldown /\ ts.consecutive_failures = 0)

\* The poll that dispatched the probe in flight cleared a cooldown: no usage was
\* ever read (three probes gave the failure value), yet the counter is 0.
C23_Witness ==
    /\ sm_last.submit = "ok" /\ sm.query_in_progress
    /\ ~sm.in_cooldown /\ sm.consecutive_failures = 0
    /\ sm.shared_gpu_memory_used = -1 /\ sm.shared_gpu_memory_total = 400

\* The threads that are inside the measurement of get_speeds() (lines 227-254).
TSMeasurers(pc) == {t \in Callers : pc[t] # "idle"}

\* C24: at most one thread is inside the measurement of get_speeds() at any time,
\* and _measuring is set exactly while one is; a call that finds _measuring set
\* returns the cached speeds, starts no measurement and changes nothing.
C24_OneMeasurementAtATime ==
    [][/\ Cardinality(TSMeasurers(ts_pc')) <= 1
       /\ ts'.measuring <=> TSMeasurers(ts_pc') # {}
       /\ \A t \in Callers :
            (GetSpeedsEnter(t) /\ ts.switchTransferSpeed /\ ts.measuring)
              => /\ ts_ret' = TSCached(ts)
                 /\ ts' = ts /\ ts_pc' = ts_pc /\ ts_local' = ts_local]_vars

\* While one thread was measuring, the call of another returned the cached speeds.
C24_Witness ==
    /\ ts.measuring /\ ts_last.kind = "busy"
    /\ \E t \in Callers : ts_pc[t] = "shared"
    /\ \E t \in Callers : ts_pc[t] = "idle"
    /\ ts_ret = TSCached(ts) /\ ts.last_vram_speed > 0

\* The future a poll retrieves holds the failure value for the usage and an
\* estimate for the total.
SMPartialResult(c) ==
    /\ SMFutureDone(c)
    /\ ~c.futures[c.pending_future].exc
    /\ c.futures[c.pending_future].used < 0
    /\ c.futures[c.pending_future].total > 0

\* C25: a partial success changes only the cached value that was obtained.  A
\* measurement that gave the VRAM speed and not the pinned-memory speed (or the
\* reverse) replaces the one cached speed and leaves the other; a probe that gave
\* the total and not the usage replaces the cached total and leaves the cached
\* usage and the cached percentage.
C25_PartialSuccessUpdatesOneField ==
    [][/\ \A t \in Callers :
            (GetSpeedsFinish(t) /\ ~ts_local[t].raised)
              => LET v == ts_local[t].vram_speed
                     h == ts_local[t].shared_speed
                 IN  /\ (v > 0 /\ h < 0)
                          => /\ ts'.last_vram_speed = v
                             /\ ts'.last_shared_speed = ts.last_shared_speed
                     /\ (h > 0 /\ v < 0)
                          => /\ ts'.last_shared_speed = h
                             /\ ts'.last_vram_speed = ts.last_vram_speed
       /\ (GetSharedGPUMemoryInfo /\ SMEnabled(sm) /\ SMPartialResult(sm))
            => /\ sm'.shared_gpu_memory_total = sm.futures[sm.pending_future].total
               /\ sm'.shared_gpu_memory_used = sm.shared_gpu_memory_used
               /\ sm'.shared_gpu_memory_percent = sm.shared_gpu_memory_percent]_vars

\* The future a poll retrieves holds a failed probe: the probe raised, or it gave
\* the failure value for the usage and no estimate for the total.
SMFailedResult(c) ==
    /\ SMFutureDone(c)
    /\ \/ c.futures[c.pending_future].exc
       \/ /\ c.futures[c.pending_future].used < 0
          /\ c.futures[c.pending_future].total <= 0

\* C30: the poll that retrieves a failed probe leaves the three cached values, which
\* it returns, as they were; the percentage is still the sentinel -1 when no probe
\* has succeeded yet.
C30_FailedProbeKeepsPercent ==
    [][(GetSharedGPUMemoryInfo /\ SMEnabled(sm) /\ SMFailedResult(sm))
         => /\ SMCached(sm') = SMCached(sm)
            /\ sm_ret' = SMCached(sm)
            /\ sm.shared_gpu_memory_used = -1
                 => sm_ret'.shared_gpu_memory_percent = -1]_vars

\* C26: is_operational() is true exactly when a backend is loaded and close() has
\* not been called since the last initialization; it is false after every close();
\* and reinitialize() returns true exactly when the instance is operational after
\* it, which is when the last attempt succeeded and a device was found.
C26_OperationalIffLoadedAndOpen ==
    [][/\ GPUIsOperational(gpu') <=> ((gpu'.pynvmlLoaded \/ gpu'.jtopLoaded)
                                        /\ ~gpu'.closed)
       /\ gpu_call'.op = "close" => ~GPUIsOperational(gpu') /\ gpu'.closed
       /\ gpu_call'.op = "reinitialize"
            => /\ ~gpu'.closed
               /\ gpu_call'.ret <=> GPUIsOperational(gpu')
               /\ gpu_call'.ret <=>
                    (gpu_call'.met[Len(gpu_call'.met)] = "ok"
                     /\ gpu'.cudaDevicesFound > 0)]_vars

\* reinitialize() loaded the backend at its first attempt, found no device and
\* returned false.
C26_Witness ==
    /\ gpu_call.op = "reinitialize"
    /\ gpu_call.met = <<"ok">>
    /\ ~gpu_call.ret /\ ~GPUIsOperational(gpu)
    /\ gpu.cudaDevicesFound = 0

\* The device list and the three per-device switch lists have the length
\* cudaDevicesFound.
GPUAligned(g) ==
    /\ Len(g.gpus) = g.cudaDevicesFound
    /\ Len(g.gpusUtilization) = g.cudaDevicesFound
    /\ Len(g.gpusVRAM) = g.cudaDevicesFound
    /\ Len(g.gpusTemperature) = g.cudaDevicesFound

C27_RateSetterStartsDriverFromZero ==
    [][NewSettings =>
         LET f == SettingsRateField(settings_req.body)
         IN  /\ f.kind = "number"
                  => /\ cm_rate' = f.val
                     /\ settings_call'.started <=> (cm_rate = 0 /\ f.val > 0)
             /\ f.kind # "number"
                  => /\ cm_rate' = cm_rate
                     /\ ~settings_call'.started]_vars

\* A request has just set a positive rate over a stored rate of 0 and started the
\* driver.
C27_Witness ==
    /\ settings_call.code = 200
    /\ settings_call.started
    /\ cm_rate > 0

\* The value of a feature switch.
SettingsSwitchValue(h, t, m, g, name) ==
    CASE name = "switchCPU" -> h.switchCPU
      [] name = "switchRAM" -> h.switchRAM
      [] name = "switchHDD" -> h.switchHDD
      [] name = "switchGPU" -> g.switchGPU
      [] name = "switchVRAM" -> g.switchVRAM
      [] name = "switchTransferSpeed" -> t.switchTransferSpeed
      [] name = "switchSharedGPUMemory" -> m.switchSharedGPUMemory

\* C28: an accepted settings request that names one of the seven feature switches
\* with a boolean sets that switch to the given value, and leaves every switch it
\* does not name as it was.
C28_NamedSwitchesSetOthersKept ==
    [][(NewSettings /\ settings_call'.code = 200)
         => \A name \in SettingsSwitches :
              SettingsSwitchValue(hw', ts', sm', gpu', name)
                = IF settings_req.body[name].kind = "bool"
                  THEN settings_req.body[name].val = 1
                  ELSE SettingsSwitchValue(hw, ts, sm, gpu, name)]_vars

\* The seconds since the outcome of the last probe was recorded, as far as the
\* two stamps tell: a recorded result sets _last_update_time (line 195), a recorded
\* failure sets _last_failure_time (line 114).
SMOutcomeAge(c) == Min(c.update_age, c.failure_age)

\* The same for the transfer-speed cache (lines 242 and 82).
TSOutcomeAge(c) == Min(c.measurement_age, c.failure_age)

C32_DispatchAndConsumeAlternate ==
    [][/\ SMPollStep
          => /\ sm_last'.harvest # "none" <=> SMFutureDone(sm)
             /\ \A i \in 1..Len(sm'.futures) : ~sm'.futures[i].done
             /\ SMFutureDone(sm)
                  => /\ sm_ret' = SMCached(sm')
                     /\ sm_last'.harvest = "ok"
                          => sm_ret'.shared_gpu_memory_used
                               = sm.futures[sm.pending_future].used
             /\ sm_last'.submit = "ok"
                  => /\ sm.pending_future = 0 \/ SMFutureDone(sm)
                     /\ Len(sm'.futures) = 1
       /\ ~SMPollStep => Len(sm'.futures) >= Len(sm.futures)]_vars

\* A probe completed with a usage, and the next poll consumed it, returned that
\* usage and dispatched nothing; no probe is left.
C32_Witness ==
    /\ component = "sm"
    /\ sm_last.kind = "poll" /\ sm_last.harvest = "ok" /\ sm_last.submit = "interval"
    /\ sm_ret.shared_gpu_memory_used = 100
    /\ sm.pending_future = 0 /\ Len(sm.futures) = 0

\* A step of the thread that holds the lock, made inside a locked section.
LockHolderStep(lock, pc, pcNext, sections) ==
    /\ lock # 0
    /\ pc[lock] \in sections
    /\ pcNext[lock] # pc[lock]
    /\ \A u \in Callers \ {lock} : pcNext[u] = pc[u]

\* The writes of C33: a step that changes a field of a cache (other than the
\* passing of time and the completion of the probe on the worker) is a step of the
\* thread that holds that cache's lock, made inside the locked section.
LockedWrites ==
    /\ (ts' # ts /\ ~TSTick)
         => LockHolderStep(ts_lock, ts_pc, ts_pc', {"locked1", "locked2"})
    /\ (sm' # sm /\ ~SMTick /\ ~SMProbeCompletes)
         => LockHolderStep(sm_lock, sm_pc, sm_pc', {"locked"})

\* C33 as stated: every write to a cache's state happens while that cache's lock is
\* held, and the lock is held by no thread at all while a probe body (a measurement
\* of get_speeds(), the probe of the shared-memory cache) is executing.
C33_LockFreeWhileProbeRuns ==
    [][/\ LockedWrites
       /\ (\E t \in Callers : ts_pc'[t] \in {"vram", "shared"}) => ts_lock' = 0
       /\ SMProbeRunning(sm') => sm_lock' = 0]_vars

\* C33, corrected: every write to a cache's state happens while that cache's lock is
\* held, and no thread holds the lock across a probe body: a thread that is inside
\* a measurement does not hold the lock, and the worker that runs the probe neither
\* takes nor releases it.  Other threads do take the lock while a probe body runs.
C33_WritesLockedProbeUnlocked ==
    [][/\ LockedWrites
       /\ \A t \in Callers : ts_pc'[t] \in {"vram", "shared"} => ts_lock' # t
       /\ SMProbeCompletes => sm_lock' = sm_lock]_vars

\* A thread is inside a measurement, having set _measuring under the lock, and
\* another thread holds the lock.
C33_Witness ==
    /\ component = "ts"
    /\ ts.measuring
    /\ \E t, u \in Callers :
         /\ t # u
         /\ ts_pc[t] \in {"vram", "shared"}
         /\ ts_lock = u /\ ts_pc[u] = "locked1"

\* C34: two CGPUInfo instances share neither the device list nor the per-device
\* switch lists: constructing an instance, or a per-device PATCH handled with one
\* instance, leaves the four lists of every other constructed instance as they
\* were.
C34_InstancesShareNoLists ==
    [][\A i \in Instances :
         (ClsConstruct(i) \/ ClsPatch(i))
         => \A j \in Instances \ {i} :
              gpu_inst[j].made
              => ClsLists(gpu_cls', gpu_inst'[j]) = ClsLists(gpu_cls, gpu_inst[j])]_vars

\* An attempt that failed: it raised, or its speed is not positive.
TSAttemptFailed(o) == o.exc \/ o.speed <= 0

\* C35: a sub-measurement (VRAM, pinned memory) makes at most
\* MAX_MEASUREMENT_RETRIES = 2 attempts.  It returns the speed of the first attempt
\* that gave a positive speed, every earlier attempt having raised or given a speed
\* that is not positive, and -1 when both attempts failed (or when CUDA is missing
\* or the switch is off, without any attempt).  The result is the one TSMeasure
\* gives for the same attempts.
C35_SubMeasurementRetries ==
    /\ ts_retry.tries <= TS_MAX_MEASUREMENT_RETRIES
    /\ ts_retry.pc = "done"
         => /\ ts_retry.result = TSMeasure(ts_retry, ts_retry.outs)
            /\ IF ts_retry.result > 0
               THEN /\ ts_retry.tries >= 1
                    /\ ~TSAttemptFailed(ts_retry.outs[ts_retry.tries])
                    /\ ts_retry.result = ts_retry.outs[ts_retry.tries].speed
                    /\ \A k \in 1..(ts_retry.tries - 1) :
                         TSAttemptFailed(ts_retry.outs[k])
               ELSE /\ ts_retry.result = -1
                    /\ IF ts_retry.cuda_available /\ ts_retry.switchTransferSpeed
                       THEN /\ ts_retry.tries = TS_MAX_MEASUREMENT_RETRIES
                            /\ \A k \in 1..ts_retry.tries :
                                 TSAttemptFailed(ts_retry.outs[k])
                       ELSE ts_retry.tries = 0

\* The first attempt gave a speed of 0, the second a positive speed, which was
\* returned.
C35_Witness ==
    /\ ts_retry.pc = "done"
    /\ ts_retry.tries = 2
    /\ ~ts_retry.outs[1].exc /\ ts_retry.outs[1].speed = 0
    /\ ts_retry.result = ts_retry.outs[2].speed
    /\ ts_retry.result > 0

\* getStatus() calls into the backend provider: the loop of lines 205-206 runs for
\* at least one device; its handle lookup (line 207) calls pynvml when pynvml is
\* loaded, and on jtop the first guarded read (lines 216-245) calls jtop.  Nothing
\* on this path reads _closed.
GPUStatusCallsBackend(g) ==
    /\ g.cudaDevice # "cpu"
    /\ g.anygpuLoaded /\ g.cuda /\ g.cudaAvailable
    /\ g.cudaDevicesFound >= 1
    /\ \/ g.pynvmlLoaded
       \/ /\ g.jtopLoaded
          /\ \/ GPUReadsUtilization(g, 1)
             \/ GPUReadsVRAM(g, 1)
             \/ GPUReadsTemperature(g, 1)

\* C36: once close() has released the backend, and until reinitialize() is
\* called, a getStatus() call makes no call into the backend provider: it neither
\* raises out of a backend call nor returns a value read from the backend.
C36_NoBackendCallAfterClose ==
    [][(GetStatus /\ gpu.closed /\ gpu_cleanups >= 1)
         => /\ ~GPUStatusCallsBackend(gpu)
            /\ ~gpu_status'.raised
            /\ \A i \in 1..Len(gpu_status'.gpus) :
                 gpu_status'.gpus[i] = GPUSentinelRecord]_vars

\* Each numeric field of a record is -1 or what a backend read of some course of
\* the call gave for that device (the percentage computed from the two memory
\* figures read).
GPURecordFromReads(rec, n, i) ==
    \E fault \in GPUFaults(n) :
      LET o == GPUOutcome(fault, i)
      IN  /\ rec.gpu_utilization \in {-1, o.util.val}
          /\ rec.gpu_temperature \in {-1, o.temp.val}
          /\ \/ /\ rec.vram_total = -1 /\ rec.vram_used = -1
                /\ rec.vram_used_percent = -1
             \/ /\ rec.vram_total = o.mem.total /\ rec.vram_used = o.mem.used
                /\ rec.vram_used_percent = GPUVramPercent(o.mem.used, o.mem.total)

\* C37: a getStatus() call that returns gives device_type 'cpu' and exactly one
\* all-sentinel record when the torch device is cpu, and otherwise exactly one
\* record for each enumerated device; each numeric field of a record is -1 or a
\* value read during the call.
C37_OneRecordPerDevice ==
    [][(GetStatus /\ ~gpu_status'.raised)
         => IF gpu.cudaDevice = "cpu"
            THEN /\ gpu_status'.device_type = "cpu"
                 /\ gpu_status'.gpus = <<GPUSentinelRecord>>
            ELSE /\ Len(gpu_status'.gpus) = gpu.cudaDevicesFound
                 /\ \A i \in 1..Len(gpu_status'.gpus) :
                      GPURecordFromReads(gpu_status'.gpus[i], gpu.cudaDevicesFound, i)]_vars

\* C38: in every reachable state of either cache the consecutive-failure counter
\* lies between 0 and the threshold (MAX_CONSECUTIVE_FAILURES = 3 for the
\* shared-memory cache, MAX_MEASUREMENT_RETRIES = 2 for the transfer-speed cache)
\* inclusive, and the cooldown flag is set exactly when the counter has reached the
\* threshold.
C38_CounterBoundedCooldownAtThreshold ==
    /\ sm.consecutive_failures \in 0..SM_MAX_CONSECUTIVE_FAILURES
    /\ sm.in_cooldown <=> sm.consecutive_failures >= SM_MAX_CONSECUTIVE_FAILURES
    /\ ts.consecutive_failures \in 0..TS_MAX_MEASUREMENT_RETRIES
    /\ ts.in_cooldown <=> ts.consecutive_failures >= TS_MAX_MEASUREMENT_RETRIES

\* The shared-memory cache some time into a cooldown: the third failure in a row
\* was recorded, the counter stands at the threshold and the flag is set.
C38_Witness ==
    /\ sm.consecutive_failures = SM_MAX_CONSECUTIVE_FAILURES
    /\ sm.in_cooldown
    /\ sm.failure_age > 0
    /\ sm.failure_age < SM_FAILURE_COOLDOWN

\* C39: the in-progress flags never stick.  A get_speeds() call that measured
\* returns with _measuring clear, whether the measurement returned or raised.  A
\* poll that finds the shared-memory probe completed, with a result or an
\* exception, clears _query_in_progress and the pending future: after it the flag
\* is set only for a probe this very poll submitted, which has not completed.  And
\* while probes terminate and polls keep arriving, a measurement in progress comes
\* to its end, and after a completed probe some later poll dispatches a probe again.
C39_InProgressFlagNeverSticks ==
    /\ [][/\ \A t \in Callers : TSFinishStep(t) => ~ts'.measuring
          /\ (SMPollStep /\ SMFutureDone(sm))
               => /\ sm'.query_in_progress <=> sm'.pending_future # 0
                  /\ sm'.query_in_progress
                       => /\ sm_last'.submit = "ok"
                          /\ Len(sm'.futures) = 1
                          /\ ~SMFutureDone(sm')]_vars
    /\ ts.measuring ~> ~ts.measuring
    /\ SMFutureDone(sm)
         ~> (sm_last.submit = "ok" /\ sm.query_in_progress /\ ~SMFutureDone(sm))

\* A probe was dispatched again after an earlier probe completed with a failure
\* and a poll took its outcome: one failure is counted, a new probe is running.
C39_Witness ==
    /\ sm_last.submit = "ok"
    /\ sm.query_in_progress /\ ~SMFutureDone(sm)
    /\ sm.consecutive_failures = 1
    /\ sm.shared_gpu_memory_used = -1

\* A sub-measurement that starts with the switch off returns -1 and raises
\* nothing, whatever the benchmark would have given.
TSSkipStep(t) ==
    /\ (GetSpeedsMeasureVram(t) /\ ~ts.switchTransferSpeed)
         => /\ ~ts_local'[t].raised
            /\ ts_local'[t].vram_speed = -1
            /\ "vram" \in ts_local'[t].skipped
    /\ (GetSpeedsMeasureShared(t) /\ ~ts.switchTransferSpeed)
         => /\ ~ts_local'[t].raised
            /\ ts_local'[t].shared_speed = -1
            /\ "shared" \in ts_local'[t].skipped

\* The end of a get_speeds() call one of whose sub-measurements found the switch
\* off records one failure and clears _measuring.
TSSkipCounted(t) ==
    (GetSpeedsFinish(t) /\ ts_local[t].skipped # {})
      => /\ ts'.consecutive_failures = ts.consecutive_failures + 1
         /\ ts'.in_cooldown <=> ts'.consecutive_failures >= TS_MAX_MEASUREMENT_RETRIES
         /\ ~ts'.measuring

\* C40 as stated: when the switch is turned off after get_speeds() has set
\* _measuring and before a sub-measurement starts, that sub-measurement returns
\* -1 without running the benchmark, the measurement is recorded as one failure
\* toward the cooldown threshold, and both cached speeds stay as they were.
C40_SwitchOffKeepsCachedSpeeds ==
    [][\A t \in Callers :
         /\ TSSkipStep(t)
         /\ TSSkipCounted(t)
         /\ (GetSpeedsFinish(t) /\ ts_local[t].skipped # {})
              => TSCached(ts') = TSCached(ts)]_vars

\* C40, amended: the sub-measurement that found the switch off returns -1 without
\* running the benchmark and the measurement is recorded as one failure; the
\* cached speed of every sub-measurement that found the switch off stays as it
\* was, while a sub-measurement of the same call that ran with the switch on and
\* gave a positive speed is cached.
C40_SwitchOffKeepsSkippedSpeed ==
    [][\A t \in Callers :
         /\ TSSkipStep(t)
         /\ TSSkipCounted(t)
         /\ (GetSpeedsFinish(t) /\ ts_local[t].skipped # {})
              => /\ "vram" \in ts_local[t].skipped
                      => ts'.last_vram_speed = ts.last_vram_speed
                 /\ "shared" \in ts_local[t].skipped
                      => ts'.last_shared_speed = ts.last_shared_speed
                 /\ ("vram" \notin ts_local[t].skipped /\ ~ts_local[t].raised)
                      => ts'.last_vram_speed
                           = IF ts_local[t].vram_speed > 0
                             THEN ts_local[t].vram_speed ELSE ts.last_vram_speed
                 /\ ("shared" \notin ts_local[t].skipped /\ ~ts_local[t].raised)
                      => ts'.last_shared_speed
                           = IF ts_local[t].shared_speed > 0
                             THEN ts_local[t].shared_speed ELSE ts.last_shared_speed]_vars

\* The first measurement of a cache: the VRAM benchmark ran and gave a speed, the
\* switch was turned off, the pinned-memory sub-measurement found it off.  One
\* failure is counted, the VRAM speed is cached, the pinned-memory speed is not.
C40_Witness ==
    /\ ts_last.kind = "measured"
    /\ ts_last.skipped = {"shared"}
    /\ ~ts.switchTransferSpeed
    /\ ts.consecutive_failures = 1
    /\ ts.last_vram_speed > 0
    /\ ts.last_shared_speed = -1

====
